---- MODULE Spec2Model ----
(***************************************************************************)
(* A model of the CPW elk harvest report parser                            *)
(* (src/parsers/parse_harvest_report.py): the section classifier, the      *)
(* section splitter, the line parsers and the record assembler.            *)
(*                                                                         *)
(* Text is modelled as Python models it: a str is a sequence of            *)
(* one-character strings, so that `in`, startswith, strip, split and the   *)
(* regular expressions are computed character by character.                *)
(***************************************************************************)
EXTENDS Integers, Sequences, FiniteSets, TLC

(***************************************************************************)
(* Python's None and Optional[...] values: None is the empty tuple and a   *)
(* present value v is <<v>>.  Optional tags (method, season, license_type) *)
(* are plain strings and use the tag "None".                               *)
(***************************************************************************)
None == <<>>
Some(v) == <<v>>

-----------------------------------------------------------------------------
(* str primitives *)

\* the characters the regular expressions' \s and str.strip() treat as blank
Whitespace == {" ", "\t"}

\* the characters of \d
Digit == {"0", "1", "2", "3", "4", "5", "6", "7", "8", "9"}

\* the characters of \w, as far as the alphabet of the model goes
WordChar == Digit \cup
  {"a","b","c","d","e","f","g","h","i","j","k","l","m","n","o","p","q","r","s","t","u","v","w","x","y","z",
   "A","B","C","D","E","F","G","H","I","J","K","L","M","N","O","P","Q","R","<<",">>T","U","V","W","X","Y","Z","_"}

\* Python: sub in t
contains(t, sub) ==
  \E k \in 0..(Len(t) - Len(sub)) : SubSeq(t, k + 1, k + Len(sub)) = sub

\* Python: t.startswith(p)
startswith(t, p) == Len(p) <= Len(t) /\ SubSeq(t, 1, Len(p)) = p

\* Python: t.find(sub) + 1, 0 when sub does not occur
find(t, sub) ==
  LET hits == {k \in 1..(Len(t) - Len(sub) + 1) : SubSeq(t, k, k + Len(sub) - 1) = sub}
  IN  IF hits = {} THEN 0 ELSE CHOOSE k \in hits : \A j \in hits : k <= j

\* Python: t.split(sep)[0]
split_first(t, sep) ==
  IF find(t, sep) = 0 THEN t ELSE SubSeq(t, 1, find(t, sep) - 1)

\* Python: t.strip()
strip(t) ==
  LET solid == {k \in 1..Len(t) : t[k] \notin Whitespace}
  IN  IF solid = {} THEN <<>>
      ELSE SubSeq(t, CHOOSE a \in solid : \A j \in solid : a <= j,
                     CHOOSE b \in solid : \A j \in solid : b >= j)

\* Python: t.replace(",", "")
RECURSIVE remove_commas(_)
remove_commas(t) ==
  IF t = <<>> THEN <<>>
  ELSE IF Head(t) = "," THEN remove_commas(Tail(t))
       ELSE <<Head(t)>> \o remove_commas(Tail(t))

\* Python: t[:n]
take(t, n) == SubSeq(t, 1, IF Len(t) < n THEN Len(t) ELSE n)

\* the maximal runs of non-blank characters of t, in order (what a pattern
\* of the form tok\s+tok\s+...tok matches token by token)
RECURSIVE tokens_from(_, _)
tokens_from(t, cur) ==
  IF t = <<>> THEN (IF cur = <<>> THEN <<>> ELSE <<cur>>)
  ELSE IF Head(t) \in Whitespace
       THEN (IF cur = <<>> THEN <<>> ELSE <<cur>>) \o tokens_from(Tail(t), <<>>)
       ELSE tokens_from(Tail(t), Append(cur, Head(t)))

tokens(t) == tokens_from(t, <<>>)

\* a token of the class [set]+
all_in(tok, set) == tok # <<>> /\ \A k \in 1..Len(tok) : tok[k] \in set

\* words joined by single blanks: how the texts of the model are written
RECURSIVE join(_)
join(ws) ==
  IF ws = <<>> THEN <<>>
  ELSE IF Len(ws) = 1 THEN ws[1]
       ELSE ws[1] \o <<" ">> \o join(Tail(ws))

DigitValue(c) ==
  CASE c = "0" -> 0 [] c = "1" -> 1 [] c = "2" -> 2 [] c = "3" -> 3 [] c = "4" -> 4
    [] c = "5" -> 5 [] c = "6" -> 6 [] c = "7" -> 7 [] c = "8" -> 8 [] c = "9" -> 9

DigitChar(d) ==
  CASE d = 0 -> "0" [] d = 1 -> "1" [] d = 2 -> "2" [] d = 3 -> "3" [] d = 4 -> "4"
    [] d = 5 -> "5" [] d = 6 -> "6" [] d = 7 -> "7" [] d = 8 -> "8" [] d = 9 -> "9"

\* Python: int(s) for a string of decimal digits
RECURSIVE int(_)
int(s) ==
  IF Len(s) = 1 THEN DigitValue(s[1])
  ELSE 10 * int(SubSeq(s, 1, Len(s) - 1)) + DigitValue(s[Len(s)])

\* Python: str(n) for a natural number
RECURSIVE str(_)
str(n) == IF n < 10 THEN <<DigitChar(n)>> ELSE str(n \div 10) \o <<DigitChar(n % 10)>>

-----------------------------------------------------------------------------
(* Section classification: classify_section *)

SectionMeta(table_type, method, season, license_type, raw_title) ==
  [table_type |-> table_type, method |-> method, season |-> season,
   license_type |-> license_type, raw_title |-> raw_title]

\* re.search(r'(\d)(?:st|nd|rd|th)\s+<word>', t): group 1 of the leftmost
\* match, None when there is none
ordinal_search(t, word) ==
  LET blanks(p) == {n \in 1..(Len(t) - p - 2 - Len(word)) :
                       \A j \in 1..n : t[p + 2 + j] \in Whitespace}
      hit(p) == /\ p + 2 <= Len(t)
                /\ t[p] \in Digit
                /\ SubSeq(t, p + 1, p + 2) \in {<<"s","t">>, <<"n","d">>, <<"r","d">>, <<"t","h">>}
                /\ \E n \in blanks(p) :
                      SubSeq(t, p + 3 + n, p + 2 + n + Len(word)) = word
      hits == {p \in 1..Len(t) : hit(p)}
  IN  IF hits = {} THEN None
      ELSE Some(t[CHOOSE p \in hits : \A q \in hits : p <= q])

\* f"{d}{'st' if d=='1' else 'nd' if d=='2' else 'rd' if d=='3' else 'th'}_split",
\* then ordinals.get(d, season): the same tag for 1..4, the f-string otherwise
split_season(d) ==
  CASE d = "1" -> "1st_split" [] d = "2" -> "2nd_split" [] d = "3" -> "3rd_split"
    [] d = "4" -> "4th_split" [] d = "0" -> "0th_split" [] d = "5" -> "5th_split"
    [] d = "6" -> "6th_split" [] d = "7" -> "7th_split" [] d = "8" -> "8th_split"
    [] d = "9" -> "9th_split"

\* ordinals.get(d, d)
number_season(d) ==
  CASE d = "1" -> "1st" [] d = "2" -> "2nd" [] d = "3" -> "3rd" [] d = "4" -> "4th"
    [] OTHER -> d

\* a Limited branch that leaves the license type unset, as the Rifle branch does
license_unset(t) == "None"

limited_license_type(t) ==
  IF contains(t, <<"A","n","t","l","e","r","e","d">>) /\ ~contains(t, <<"A","n","t","l","e","r","l","e","s","s">>) THEN "antlered"
  ELSE IF contains(t, <<"A","n","t","l","e","r","l","e","s","s">>) THEN "antlerless"
  ELSE IF contains(t, <<"E","i","t","h","e","r","-","s","e","x">>) \/ contains(t, <<"E","i","t","h","e","r"," ","S","e","x">>) THEN "either_sex"
  ELSE "None"

limited_season(t) ==
  IF contains(t, <<"S","p","l","i","t">>)
  THEN LET m == ordinal_search(t, <<"S","p","l","i","t">>)
       IN  IF m # None THEN split_season(m[1]) ELSE "None"
  ELSE LET m == ordinal_search(t, <<"S","e","a","s","o","n">>)
       IN  IF m # None THEN number_season(m[1]) ELSE "None"

rifle_season(t) ==
  IF contains(t, <<"F","i","r","s","t">>) \/ contains(t, <<"1","s","t">>) THEN "1st"
  ELSE IF contains(t, <<"S","e","c","o","n","d">>) \/ contains(t, <<"2","n","d">>) THEN "2nd"
  ELSE IF contains(t, <<"T","h","i","r","d">>) \/ contains(t, <<"3","r","d">>) THEN "3rd"
  ELSE IF contains(t, <<"F","o","u","r","t","h">>) \/ contains(t, <<"4","t","h">>) THEN "4th"
  ELSE "all"

plo_method(t) ==
  IF contains(t, <<"E","a","r","l","y"," ","P","L","O">>) THEN "plo_early"
  ELSE IF contains(t, <<"L","a","t","e"," ","P","L","O">>) THEN "plo_late"
  ELSE "plo"

\* lines 76-82: the table type of a title, "None" when it names neither
table_type_of(t) ==
  IF contains(t, <<"P","e","r","c","e","n","t"," ","S","u","c","c","e","s","s">>) THEN "percent_success"
  ELSE IF contains(t, <<"R","e","c","r","e","a","t","i","o","n"," ","D","a","y","s">>) THEN "harvest_rec_days"
  ELSE "None"

\* the branches below the Limited one with Rifle tried before Archery
weapon_cascade_rifle_first(tbl, t) ==
  IF contains(t, <<"R","i","f","l","e">>)
    THEN SectionMeta(tbl, "rifle", rifle_season(t), "None", t)
  ELSE IF contains(t, <<"A","r","c","h","e","r","y">>)
    THEN SectionMeta(tbl, "archery", "all", "None", t)
  ELSE IF contains(t, <<"M","u","z","z","l","e","l","o","a","d","e","r">>) \/ contains(t, <<"M","u","z","z","l","e">>)
    THEN SectionMeta(tbl, "muzzleloader", "all", "None", t)
  ELSE IF contains(t, <<"A","l","l"," ","M","a","n","n","e","r","s">>)
    THEN SectionMeta(tbl, "all", "all", "None", t)
  ELSE SectionMeta(tbl, "unknown", "all", "None", t)

\* branches below the Limited one that file a title of no known method
\* under "all"
weapon_cascade_all_default(tbl, t) ==
  IF contains(t, <<"A","r","c","h","e","r","y">>)
    THEN SectionMeta(tbl, "archery", "all", "None", t)
  ELSE IF contains(t, <<"M","u","z","z","l","e","l","o","a","d","e","r">>) \/ contains(t, <<"M","u","z","z","l","e">>)
    THEN SectionMeta(tbl, "muzzleloader", "all", "None", t)
  ELSE IF contains(t, <<"R","i","f","l","e">>)
    THEN SectionMeta(tbl, "rifle", rifle_season(t), "None", t)
  ELSE SectionMeta(tbl, "all", "all", "None", t)

\* lines 139-166: the branches below the Limited one
weapon_cascade(tbl, t) ==
  IF contains(t, <<"A","r","c","h","e","r","y">>)
    THEN SectionMeta(tbl, "archery", "all", "None", t)
  ELSE IF contains(t, <<"M","u","z","z","l","e","l","o","a","d","e","r">>) \/ contains(t, <<"M","u","z","z","l","e">>)
    THEN SectionMeta(tbl, "muzzleloader", "all", "None", t)
  ELSE IF contains(t, <<"R","i","f","l","e">>)
    THEN SectionMeta(tbl, "rifle", rifle_season(t), "None", t)
  ELSE IF contains(t, <<"A","l","l"," ","M","a","n","n","e","r","s">>)
    THEN SectionMeta(tbl, "all", "all", "None", t)
  ELSE SectionMeta(tbl, "unknown", "all", "None", t)

\* lines 84-168: method, season and license type of a title with a table type
method_cascade(tbl, t) ==
  IF contains(t, <<"R","a","n","c","h","i","n","g"," ","f","o","r"," ","W","i","l","d","l","i","f","e">>)
    THEN SectionMeta(tbl, "rfw", "all", "None", t)
  ELSE IF contains(t, <<"E","a","r","l","y"," ","H","i","g","h"," ","C","o","u","n","t","r","y">>)
    THEN SectionMeta(tbl, "early_hc", "all", "None", t)
  ELSE IF contains(t, <<"P","L","O"," ","S","e","a","s","o","n","s"," ","O","n","l","y">>) \/ contains(t, <<"P","r","i","v","a","t","e"," ","L","a","n","d"," ","O","n","l","y">>)
    THEN SectionMeta(tbl, plo_method(t), "all", "None", t)
  ELSE IF contains(t, <<"L","a","t","e"," ","S","e","a","s","o","n","s">>)
          /\ ~contains(split_first(t, <<"L","a","t","e"," ","S","e","a","s","o","n","s">>), <<"P","L","O">>)
    THEN SectionMeta(tbl, IF contains(t, <<"I","n","c","l","u","d","e","s"," ","P","L","O","s">>) THEN "late_incl_plo" ELSE "late",
                     "all", "None", t)
  ELSE IF contains(t, <<"L","i","m","i","t","e","d">>)
    THEN SectionMeta(tbl, "rifle", limited_season(t), limited_license_type(t), t)
  ELSE weapon_cascade(tbl, t)

\* a classifier that looks at the table type before the Damage check
classify_section_shape_first(title) ==
  LET t == strip(title)
  IN  IF contains(t, <<"B","y"," ","D","A","U">>) \/ contains(t, <<"b","y"," ","D","A","U">>)
         \/ contains(t, <<"D","A","U"," ","w","i","t","h">>) \/ contains(t, <<"D","A","U"," ","w"," ">>)
        THEN Some(SectionMeta("dau_summary", "all", "all", "None", t))
      ELSE IF contains(t, <<"B","o","s","q","u","e"," ","d","e","l"," ","O","s","o">>)
        THEN Some(SectionMeta("bosque", "bosque", "all", "None", t))
      ELSE IF table_type_of(t) # "None" THEN Some(method_cascade(table_type_of(t), t))
      ELSE IF contains(t, <<"D","a","m","a","g","e">>) \/ contains(t, <<"A","F","A">>) \/ contains(t, <<"A","u","c","t","i","o","n">>)
        THEN Some(SectionMeta("harvest_rec_days", "damage", "all", "None", t))
      ELSE None

\* classify_section(title): Some(SectionMeta) or None
classify_section(title) ==
  LET t == strip(title)
  IN  IF contains(t, <<"B","y"," ","D","A","U">>) \/ contains(t, <<"b","y"," ","D","A","U">>)
         \/ contains(t, <<"D","A","U"," ","w","i","t","h">>) \/ contains(t, <<"D","A","U"," ","w"," ">>)
        THEN Some(SectionMeta("dau_summary", "all", "all", "None", t))
      ELSE IF contains(t, <<"B","o","s","q","u","e"," ","d","e","l"," ","O","s","o">>)
        THEN Some(SectionMeta("bosque", "bosque", "all", "None", t))
      ELSE IF contains(t, <<"D","a","m","a","g","e">>) \/ contains(t, <<"A","F","A">>) \/ contains(t, <<"A","u","c","t","i","o","n">>)
        THEN Some(SectionMeta("harvest_rec_days", "damage", "all", "None", t))
      ELSE IF table_type_of(t) = "None" THEN None
      ELSE Some(method_cascade(table_type_of(t), t))

-----------------------------------------------------------------------------
(* Number parsing: parse_int, parse_float *)

\* an exception leaving a function, by the name of its class
Raised(exc) == [raised |-> exc]

\* Python: int(s) where s may be empty (the integer part of ".5")
int_or_zero(s) == IF s = <<>> THEN 0 ELSE int(s)

parse_int(s) ==
  LET u == remove_commas(strip(s))
  IN  IF u = <<>> \/ u = <<"-">> THEN 0 ELSE int(u)

\* s without its trailing "0" characters
RECURSIVE strip_zeros(_)
strip_zeros(s) ==
  IF s # <<>> /\ s[Len(s)] = "0" THEN strip_zeros(SubSeq(s, 1, Len(s) - 1)) ELSE s

\* Python: float(u) for u over digits and ".": the decimal mant / 10^exp in
\* lowest terms of ten, or ValueError when u is no decimal literal
float(u) ==
  LET dots == {k \in 1..Len(u) : u[k] = "."}
  IN  IF Cardinality(dots) > 1 \/ Cardinality(dots) = Len(u) THEN Raised("ValueError")
      ELSE IF dots = {} THEN [mant |-> int(u), exp |-> 0]
      ELSE LET d == CHOOSE k \in dots : TRUE
               frac == strip_zeros(SubSeq(u, d + 1, Len(u)))
           IN  [mant |-> int_or_zero(SubSeq(u, 1, d - 1) \o frac), exp |-> Len(frac)]

parse_float(s) ==
  LET u == remove_commas(strip(s))
  IN  IF u = <<>> \/ u = <<"-">> THEN [mant |-> 0, exp |-> 0] ELSE float(u)

-----------------------------------------------------------------------------
(* Line-level patterns.  Each pattern is a sequence of tokens separated by   *)
(* \s+ and anchored by ^ and \s*$, so a line matches when it starts with a   *)
(* non-blank character and its tokens, one by one, belong to the classes;    *)
(* a match is Some(groups), no match is None.                                *)

\* [\d,]+
numeric(tok) == all_in(tok, Digit \cup {","})

\* \d+
digits(tok) == all_in(tok, Digit)

\* [\d.]+
decimal(tok) == all_in(tok, Digit \cup {"."})

anchored(line) == line # <<>> /\ line[1] \notin Whitespace

\* the seven numeric columns Bulls .. RecDays shared by three patterns
harvest_columns(tk) ==
  /\ Len(tk) = 7
  /\ \A k \in 1..5 : numeric(tk[k])
  /\ digits(tk[6])
  /\ numeric(tk[7])

HARVEST_LINE_RE(line) ==
  LET tk == tokens(line)
  IN  IF anchored(line) /\ Len(tk) = 8 /\ digits(tk[1]) /\ harvest_columns(Tail(tk))
      THEN Some(tk) ELSE None

HARVEST_TOTAL_RE(line) ==
  LET tk == tokens(line)
  IN  IF anchored(line) /\ Len(tk) = 8 /\ tk[1] = <<"T","o","t","a","l">> /\ harvest_columns(Tail(tk))
      THEN Some(Tail(tk)) ELSE None

success_columns(tk) ==
  /\ Len(tk) = 6
  /\ numeric(tk[1]) /\ numeric(tk[2]) /\ digits(tk[3])
  /\ numeric(tk[4]) /\ numeric(tk[5]) /\ digits(tk[6])

SUCCESS_LINE_RE(line) ==
  LET tk == tokens(line)
  IN  IF anchored(line) /\ Len(tk) = 7 /\ digits(tk[1]) /\ success_columns(Tail(tk))
      THEN Some(tk) ELSE None

SUCCESS_TOTAL_RE(line) ==
  LET tk == tokens(line)
  IN  IF anchored(line) /\ Len(tk) = 7 /\ tk[1] = <<"T","o","t","a","l">> /\ success_columns(Tail(tk))
      THEN Some(Tail(tk)) ELSE None

\* ([\d.]+)%? : the token without its optional percent sign, None when it
\* is not of that form
percent_group(tok) ==
  IF decimal(tok) THEN Some(tok)
  ELSE IF Len(tok) >= 2 /\ tok[Len(tok)] = "%" /\ decimal(SubSeq(tok, 1, Len(tok) - 1))
       THEN Some(SubSeq(tok, 1, Len(tok) - 1))
       ELSE None

DAU_LINE_RE(line) ==
  LET tk == tokens(line)
  IN  IF /\ anchored(line) /\ Len(tk) = 16
         /\ startswith(tk[1], <<"E","-">>) /\ digits(SubSeq(tk[1], 3, Len(tk[1])))
         /\ \A k \in 2..9 : numeric(tk[k])
         /\ percent_group(tk[10]) # None
         /\ \A k \in 11..14 : numeric(tk[k])
         /\ decimal(tk[15]) /\ decimal(tk[16])
      THEN Some([k \in 1..16 |-> IF k = 10 THEN percent_group(tk[10])[1] ELSE tk[k]])
      ELSE None

\* the alternatives of group 1 of BOSQUE_LINE_RE, in the pattern's order
BosqueSeasons ==
  <<<<"A","r","c","h","e","r","y">>, <<"M","u","z","z","l","e","l","o","a","d","e","r">>, <<"1","s","t"," ","R","i","f","l","e">>, <<"2","n","d"," ","R","i","f","l","e">>, <<"3","r","d"," ","R","i","f","l","e">>,
    <<"4","t","h"," ","R","i","f","l","e">>, <<"L","a","t","e"," ","R","i","f","l","e">>, <<"T","o","t","a","l">>>>

BOSQUE_LINE_RE(line) ==
  LET fits(k) == LET name == BosqueSeasons[k]
                     rest == SubSeq(line, Len(name) + 1, Len(line))
                 IN  /\ startswith(line, name)
                     /\ rest # <<>> /\ rest[1] \in Whitespace
                     /\ harvest_columns(tokens(rest))
      ks == {k \in 1..Len(BosqueSeasons) : fits(k)}
  IN  IF ks = {} THEN None
      ELSE LET k == CHOOSE a \in ks : \A b \in ks : a <= b
           IN  Some(<<BosqueSeasons[k]>>
                    \o tokens(SubSeq(line, Len(BosqueSeasons[k]) + 1, Len(line))))

-----------------------------------------------------------------------------
(* Records: the dataclasses HarvestRecord and DAURecord.  An Optional[int]  *)
(* field is None or Some(n).                                                 *)

HarvestRecord(year, species, gmu, section_method, section_season, section_license_type, counts, success, table_type, section_title) ==
  [year |-> year, species |-> species, gmu |-> gmu,
   section_method |-> section_method, section_season |-> section_season,
   section_license_type |-> section_license_type,
   bulls |-> counts[1], cows |-> counts[2], calves |-> counts[3],
   total_harvest |-> counts[4], total_hunters |-> counts[5],
   pct_success |-> counts[6], total_rec_days |-> counts[7],
   antlered_harvest |-> success[1], antlered_hunters |-> success[2],
   antlered_pct_success |-> success[3], antlerless_harvest |-> success[4],
   antlerless_hunters |-> success[5], antlerless_pct_success |-> success[6],
   table_type |-> table_type, section_title |-> section_title]

\* the defaults of the two field sets of HarvestRecord
DefaultCounts == <<0, 0, 0, 0, 0, 0, 0>>
DefaultSuccess == <<None, None, None, None, None, None>>

DAURecord(year, species, dau, v) ==
  [year |-> year, species |-> species, dau |-> dau,
   total_hunters |-> v[2], hunters_se |-> v[3], hunters_lcl |-> v[4], hunters_ucl |-> v[5],
   total_harvest |-> v[6], harvest_se |-> v[7], harvest_lcl |-> v[8], harvest_ucl |-> v[9],
   pct_success |-> v[10],
   total_rec_days |-> v[11], rec_days_se |-> v[12], rec_days_lcl |-> v[13],
   rec_days_ucl |-> v[14],
   sample_rate |-> v[15], response_rate |-> v[16]]

\* isinstance(r, HarvestRecord), isinstance(r, DAURecord)
IsHarvestRecord(r) == "gmu" \in DOMAIN r
IsDAURecord(r) == "dau" \in DOMAIN r

\* the concatenation of a sequence of sequences
RECURSIVE concat(_)
concat(ss) == IF ss = <<>> THEN <<>> ELSE Head(ss) \o concat(Tail(ss))

-----------------------------------------------------------------------------
(* Line parsing: what one line of a buffer contributes to parse_section      *)

\* parse_int of the groups first..last of a match
ints(m, first, last) == [k \in 1..(last - first + 1) |-> parse_int(m[first + k - 1])]

\* a dau_id that keeps the token as it is written
dau_id_raw(raw_dau) == raw_dau

\* raw_dau -> dau_id: the number after the dash without its leading zeros
dau_id(raw_dau) == <<"E","-">> \o str(int(SubSeq(raw_dau, 3, Len(raw_dau))))

\* the values of a DAU line's groups: group 1 normalised, the rest parsed
dau_values(m) ==
  [k \in 1..16 |-> IF k = 1 THEN dau_id(m[1])
                   ELSE IF k \in {10, 15, 16} THEN parse_float(m[k])
                   ELSE parse_int(m[k])]

\* season_map of parse_bosque_section
season_map(season_name) ==
  CASE season_name = <<"A","r","c","h","e","r","y">>      -> <<"archery", "all">>
    [] season_name = <<"M","u","z","z","l","e","l","o","a","d","e","r">> -> <<"muzzleloader", "all">>
    [] season_name = <<"1","s","t"," ","R","i","f","l","e">>    -> <<"rifle", "1st">>
    [] season_name = <<"2","n","d"," ","R","i","f","l","e">>    -> <<"rifle", "2nd">>
    [] season_name = <<"3","r","d"," ","R","i","f","l","e">>    -> <<"rifle", "3rd">>
    [] season_name = <<"4","t","h"," ","R","i","f","l","e">>    -> <<"rifle", "4th">>
    [] season_name = <<"L","a","t","e"," ","R","i","f","l","e">>   -> <<"rifle", "late">>
    [] season_name = <<"T","o","t","a","l">>        -> <<"all", "all">>
    [] OTHER                         -> <<"unknown", "unknown">>

\* f"bosque_{method}"
bosque_method(method) ==
  CASE method = "archery" -> "bosque_archery"
    [] method = "muzzleloader" -> "bosque_muzzleloader"
    [] method = "rifle" -> "bosque_rifle"
    [] method = "all" -> "bosque_all"
    [] OTHER -> "bosque_unknown"

\* the parsed groups of a match of HARVEST_LINE_RE (8) or SUCCESS_LINE_RE (7)
row_values(m, n) == IF m = None THEN None ELSE Some(ints(m[1], 1, n))

dau_row_values(m) == IF m = None THEN None ELSE Some(dau_values(m[1]))

\* season_name = m.group(1).strip() and the parsed groups 2..8
bosque_row_values(m) ==
  IF m = None THEN None
  ELSE Some([season_name |-> strip(m[1][1]), counts |-> ints(m[1], 2, 8)])

\* Everything the patterns and the number parsers make of one line, computed
\* once per line: the parsers below read it instead of matching again.
line_matches(line) ==
  [harvest        |-> row_values(HARVEST_LINE_RE(line), 8),
   harvest_total  |-> HARVEST_TOTAL_RE(line) # None,
   success        |-> row_values(SUCCESS_LINE_RE(line), 7),
   success_total  |-> SUCCESS_TOTAL_RE(line) # None,
   dau            |-> dau_row_values(DAU_LINE_RE(line)),
   bosque         |-> bosque_row_values(BOSQUE_LINE_RE(line))]

-----------------------------------------------------------------------------
(* extract_full_text: the text and the year of a document, from its pages *)

\* Python: t.lower(), for the letters of the model's file names
lower(t) ==
  LET upper == <<"A","B","C","D","E","F","G","H","I","J","K","L","M","N","O","P","Q","R","S","T","U","V","W","X","Y","Z">>
      small == <<"a","b","c","d","e","f","g","h","i","j","k","l","m","n","o","p","q","r","s","t","u","v","w","x","y","z">>
  IN  [k \in 1..Len(t) |->
         IF \E i \in 1..26 : upper[i] = t[k]
         THEN small[CHOOSE i \in 1..26 : upper[i] = t[k]] ELSE t[k]]

\* Python: t.endswith(suffix)
endswith(t, suffix) ==
  Len(suffix) <= Len(t) /\ SubSeq(t, Len(t) - Len(suffix) + 1, Len(t)) = suffix

\* Python: t.split('\n')
RECURSIVE split_lines(_)
split_lines(t) ==
  IF find(t, <<"\n">>) = 0 THEN <<t>>
  ELSE <<SubSeq(t, 1, find(t, <<"\n">>) - 1)>>
         \o split_lines(SubSeq(t, find(t, <<"\n">>) + 1, Len(t)))

\* Python: '\n'.join(ls)
RECURSIVE join_lines(_)
join_lines(ls) ==
  IF ls = <<>> THEN <<>>
  ELSE IF Len(ls) = 1 THEN ls[1]
       ELSE ls[1] \o <<"\n">> \o join_lines(Tail(ls))

\* (20\d{2})\s+Elk matches t at position p, or, when `colorado` is set,
\* (20\d{2})\s+(?:Colorado\s+)?Elk does (lines 321, 330 and 346)
year_at(t, p, colorado) ==
  LET blank(q) == q <= Len(t) /\ t[q] \in Whitespace \cup {"\n"}
      word(q, w) == q + Len(w) - 1 <= Len(t) /\ SubSeq(t, q, q + Len(w) - 1) = w
      after(q) == CHOOSE r \in q..(Len(t) + 1) : /\ \A j \in q..(r - 1) : blank(j)
                                                 /\ ~blank(r)
  IN  /\ word(p, <<"2","0">>) /\ p + 3 <= Len(t) /\ t[p + 2] \in Digit /\ t[p + 3] \in Digit
      /\ blank(p + 4)
      /\ \/ word(after(p + 4), <<"E","l","k">>)
         \/ /\ colorado
            /\ word(after(p + 4), <<"C","o","l","o","r","a","d","o">>)
            /\ blank(after(p + 4) + 8)
            /\ word(after(after(p + 4) + 8), <<"E","l","k">>)

\* lines 321-323 and 330-332: re.search for the year in the text of a page
\* that is dropped; None or Some(year)
year_search(t) ==
  LET hits == {p \in 1..Len(t) : year_at(t, p, TRUE)}
  IN  IF hits = {} THEN None
      ELSE Some(int(SubSeq(t, CHOOSE p \in hits : \A q \in hits : p <= q,
                              (CHOOSE p \in hits : \A q \in hits : p <= q) + 3)))

\* lines 305-316: the page is a table of contents
is_toc(page_lines) ==
  \/ Cardinality({k \in 1..Len(page_lines) : contains(page_lines[k], <<".",".",".",".">>)}) > 5
  \/ contains(join(take(page_lines, 5)), <<"C","o","n","t","e","n","t","s">>)

\* line 328: the page is the methodology page
is_methodology(t) == contains(t, <<"M","e","t","h","o","d","o","l","o","g","y">>) /\ contains(t, <<"s","t","r","a","t","i","f","i","e","d"," ","r","a","n","d","o","m">>)

\* a cleaning of the lines that keeps the page numbers
clean_lines_with_numbers(page_lines) ==
  SelectSeq([k \in 1..Len(page_lines) |-> strip(page_lines[k])], LAMBDA l : l # <<>>)

\* lines 335-341: the lines of a page that is kept, stripped, without the
\* empty ones and the page numbers
clean_lines(page_lines) ==
  SelectSeq([k \in 1..Len(page_lines) |-> strip(page_lines[k])],
            LAMBDA l : l # <<>> /\ ~(Len(l) <= 3 /\ digits(l)))

\* a loop over the pages that takes the year of every dropped page that
\* shows one, the year of the pages before known or not
RECURSIVE extract_pages_overwriting(_, _, _, _)
extract_pages_overwriting(pages, k, kept, found) ==
  IF k > Len(pages) THEN [lines |-> kept, year |-> found]
  ELSE IF pages[k] = None THEN extract_pages_overwriting(pages, k + 1, kept, found)
  ELSE IF is_toc(split_lines(pages[k][1])) \/ is_methodology(pages[k][1])
  THEN extract_pages_overwriting(pages, k + 1, kept,
                                 IF year_search(pages[k][1]) # None
                                 THEN year_search(pages[k][1]) ELSE found)
  ELSE extract_pages_overwriting(pages, k + 1,
                                 kept \o clean_lines(split_lines(pages[k][1])), found)

\* lines 296-341: the loop over the pages from page k on, kept the lines
\* and found the year of the pages before
RECURSIVE extract_pages(_, _, _, _)
extract_pages(pages, k, kept, found) ==
  IF k > Len(pages) THEN [lines |-> kept, year |-> found]
  ELSE IF pages[k] = None THEN extract_pages(pages, k + 1, kept, found)
  ELSE IF is_toc(split_lines(pages[k][1])) \/ is_methodology(pages[k][1])
  THEN extract_pages(pages, k + 1, kept,
                     IF found = None THEN year_search(pages[k][1]) ELSE found)
  ELSE extract_pages(pages, k + 1, kept \o clean_lines(split_lines(pages[k][1])), found)

\* an extract_full_text without the search of lines 343-349
title_year_never(kept) == None

\* lines 343-349: the year of the first line that starts as a section title
title_year(kept) ==
  LET hits == {k \in 1..Len(kept) : year_at(kept[k], 1, FALSE)}
  IN  IF hits = {} THEN None
      ELSE Some(int(take(kept[CHOOSE k \in hits : \A j \in hits : k <= j], 4)))

\* what extract_full_text has after its loop (lines, year) makes of it
extracted(after_loop) ==
  [text |-> join_lines(after_loop.lines),
   year |-> IF after_loop.year = None THEN title_year(after_loop.lines)
            ELSE after_loop.year]

\* lines 286-351
extract_full_text(pages) == extracted(extract_pages(pages, 1, <<>>, None))

-----------------------------------------------------------------------------
(* parse_elk_population.py: the loop of parse_elk_population_pdf over the   *)
(* lines of a population table                                              *)

\* Python: re.sub(r'\*+', '', t)
RECURSIVE remove_stars(_)
remove_stars(t) ==
  IF t = <<>> THEN <<>>
  ELSE IF Head(t) = "*" THEN remove_stars(Tail(t))
       ELSE <<Head(t)>> \o remove_stars(Tail(t))

\* TOTAL_LINE_RE, ^Total\s+Statewide\s+Estimate\s+([\d,]+) without regard
\* to case, matches the line
POPULATION_TOTAL_RE(line) ==
  /\ anchored(line)
  /\ Len(tokens(line)) >= 4
  /\ lower(tokens(line)[1]) = <<"t","o","t","a","l">>
  /\ lower(tokens(line)[2]) = <<"s","t","a","t","e","w","i","d","e">>
  /\ lower(tokens(line)[3]) = <<"e","s","t","i","m","a","t","e">>
  /\ tokens(line)[4][1] \in Digit \cup {","}

\* skip_patterns, lines 147-154
skip_patterns ==
  {<<"E","L","K">>, <<"P","O","S","T"," ","H","U","N","T">>, <<"P","o","s","t"," ","H","u","n","t">>, <<"B","u","l","l","/","C","o","w">>, <<"D","A","U","*">>, <<"D","A","U"," ","*">>,
   <<"G","A","M","E"," ","M","A","N","A","G","E","M","E","N","T">>, <<"G","a","m","e"," ","M","a","n","a","g","e","m","e","n","t">>, <<"*"," ","D","A","U">>, <<"*","*"," ","D","A","U">>, <<"*","*","*"," ","D","A","U">>,
   <<"p","o","s","t"," ","h","u","n","t">>, <<"C","o","l","o","r","a","d","o"," ","P","a","r","k","s">>, <<"T","e","r","r","e","s","t","r","i","a","l">>, <<"U","N","I","T","E","S">>, <<"U","N","I","T","S"," ","I","N","V","O","L","V","E","D">>}

\* line 178, re.match(r'^(\d{1,2})\s+(.+)$', line) on a stripped line: None
\* or the groups <<digits, rest>>
population_dau_match(line) ==
  LET n == IF Len(line) >= 2 /\ line[1] \in Digit /\ line[2] \in Digit THEN 2
           ELSE IF Len(line) >= 1 /\ line[1] \in Digit THEN 1 ELSE 0
      rest == SubSeq(line, n + 1, Len(line))
  IN  IF n = 0 \/ rest = <<>> \/ rest[1] \notin Whitespace \/ strip(rest) = <<>>
      THEN None
      ELSE Some(<<SubSeq(line, 1, n), strip(rest)>>)

\* lines 189-194: the tokens of the rest of the line without its asterisks
population_tokens(rest) == tokens(strip(remove_stars(strip(rest))))

\* lines 202-225: the line has the numeric columns at its end that the table
\* is to have
population_columns(tk, has_ratio) == tk # <<>> /\ numeric(tk[Len(tk)])

\* line 203: the ratio is the last of two numeric tokens at the end
population_has_ratio(tk, has_ratio) ==
  has_ratio /\ Len(tk) >= 2 /\ numeric(tk[Len(tk)]) /\ numeric(tk[Len(tk) - 1])

\* line 204, int(tokens[-1]): ValueError for a ratio written with a comma
population_line_raises(line, has_ratio) ==
  LET l == strip(line)
  IN  /\ l # <<>> /\ ~POPULATION_TOTAL_RE(l)
      /\ \A skip \in skip_patterns : ~contains(l, skip)
      /\ ~startswith(l, <<"*">>)
      /\ population_dau_match(l) # None
      /\ population_has_ratio(population_tokens(population_dau_match(l)[1][2]), has_ratio)
      /\ ~digits(population_tokens(population_dau_match(l)[1][2])
                   [Len(population_tokens(population_dau_match(l)[1][2]))])

\* lines 233-244: the record of a line, as far as its DAU and its numbers go
\* (the herd name and the list of units of parse_middle are left out)
PopulationRecord(year, dau_num, tk, with_ratio) ==
  [year |-> year, species |-> "elk",
   dau |-> <<"E","-">> \o str(dau_num), dau_number |-> dau_num,
   population_estimate |-> parse_int(tk[IF with_ratio THEN Len(tk) - 1 ELSE Len(tk)]),
   bull_cow_ratio |-> IF with_ratio THEN Some(int(tk[Len(tk)])) ELSE None]

\* a record whose dau is written with the digits of the line as they are
PopulationRecordAsWritten(year, dau_text, tk, with_ratio) ==
  [year |-> year, species |-> "elk",
   dau |-> <<"E","-">> \o dau_text, dau_number |-> int(dau_text),
   population_estimate |-> parse_int(tk[IF with_ratio THEN Len(tk) - 1 ELSE Len(tk)]),
   bull_cow_ratio |-> IF with_ratio THEN Some(int(tk[Len(tk)])) ELSE None]

\* a loop body that does not take int() of the digits of the DAU
population_line_records_as_written(line, has_ratio, year) ==
  LET l == strip(line)
      m == population_dau_match(l)
  IN  IF \/ l = <<>> \/ POPULATION_TOTAL_RE(l)
         \/ \E skip \in skip_patterns : contains(l, skip)
         \/ startswith(l, <<"*">>)
         \/ m = None
      THEN <<>>
      ELSE IF ~population_columns(population_tokens(m[1][2]), has_ratio) THEN <<>>
      ELSE <<PopulationRecordAsWritten(year, m[1][1], population_tokens(m[1][2]),
               population_has_ratio(population_tokens(m[1][2]), has_ratio))>>

\* lines 156-244: the body of the loop for a line that does not raise
population_line_records(line, has_ratio, year) ==
  LET l == strip(line)
      m == population_dau_match(l)
  IN  IF \/ l = <<>> \/ POPULATION_TOTAL_RE(l)
         \/ \E skip \in skip_patterns : contains(l, skip)
         \/ startswith(l, <<"*">>)
         \/ m = None
      THEN <<>>
      ELSE IF ~population_columns(population_tokens(m[1][2]), has_ratio) THEN <<>>
      ELSE <<PopulationRecord(year, int(m[1][1]), population_tokens(m[1][2]),
               population_has_ratio(population_tokens(m[1][2]), has_ratio))>>

-----------------------------------------------------------------------------
(* The texts the documents of the model are made of *)

\* the longest text the splitter is given, in lines
MaxLines == 4

\* the longest text the line parsers are given, in lines
MaxParseLines == 4

\* the longest text of the documents with several sections of rows, in lines
MaxOrderLines == 5

\* the longest text with footers and notes, and the longest text whose
\* records are counted, in lines
MaxReportLines == 3
MaxCountLines == 6

\* the most characters of a text given to the normalization of ordinals
MaxChars == 6

\* the most digits of the number of a DAU token
MaxDigits == 2

\* the report years of the documents
Years == {2019, 2020}

\* the most phrases of the method cascade in one title
MaxPhrases == 4

\* the most phrases of the first three checks in one title
MaxTops == 2

\* A title is its opening words followed by phrases the classifier looks for.
Lead == <<"2","0","1","9"," ","E","l","k"," ","H","a","r","v","e","s","t">>

PercentSuccess == <<"P","e","r","c","e","n","t"," ","S","u","c","c","e","s","s">>
RecreationDays == <<"R","e","c","r","e","a","t","i","o","n"," ","D","a","y","s">>
Confidence     == <<"C","o","n","f","i","d","e","n","c","e">>

\* the table-type phrases of a title, in the order they stand in it
ShapeChoices ==
  {<<>>, <<PercentSuccess>>, <<RecreationDays>>, <<Confidence>>,
   <<RecreationDays, PercentSuccess>>}

DAUMarkers    == {<<"B","y"," ","D","A","U">>, <<"b","y"," ","D","A","U">>, <<"D","A","U"," ","w","i","t","h">>, <<"D","A","U"," ","w"," ","C","I">>}
BosqueMarker  == <<"B","o","s","q","u","e"," ","d","e","l"," ","O","s","o">>
DamageMarkers == {<<"D","a","m","a","g","e">>, <<"A","F","A">>, <<"A","u","c","t","i","o","n">>}

TopPhrases ==
  <<<<"B","y"," ","D","A","U">>, <<"b","y"," ","D","A","U">>, <<"D","A","U"," ","w","i","t","h">>, <<"D","A","U"," ","w"," ","C","I">>, BosqueMarker,
    <<"D","a","m","a","g","e">>, <<"A","F","A">>, <<"A","u","c","t","i","o","n">>>>

RanchingForWildlife == <<"R","a","n","c","h","i","n","g"," ","f","o","r"," ","W","i","l","d","l","i","f","e">>
EarlyHighCountry    == <<"E","a","r","l","y"," ","H","i","g","h"," ","C","o","u","n","t","r","y">>
PrivateLandOnly     == <<"P","r","i","v","a","t","e"," ","L","a","n","d"," ","O","n","l","y">>
EarlyPLO            == <<"E","a","r","l","y"," ","P","L","O"," ","S","e","a","s","o","n","s"," ","O","n","l","y">>
LatePLO             == <<"L","a","t","e"," ","P","L","O"," ","S","e","a","s","o","n","s"," ","O","n","l","y">>
PLOsAnd             == <<"P","L","O","s"," ","a","n","d">>
LateSeasons         == <<"L","a","t","e"," ","S","e","a","s","o","n","s">>
IncludesPLOs        == <<"I","n","c","l","u","d","e","s"," ","P","L","O","s">>
Limited             == <<"L","i","m","i","t","e","d">>
Archery             == <<"A","r","c","h","e","r","y">>
Muzzleloader        == <<"M","u","z","z","l","e","l","o","a","d","e","r">>
Rifle               == <<"R","i","f","l","e">>
AllManners          == <<"A","l","l"," ","M","a","n","n","e","r","s">>

\* the phrases of the method cascade, in the order they stand in a title
BranchPhrases ==
  <<RanchingForWildlife, EarlyHighCountry, PrivateLandOnly, EarlyPLO, LatePLO,
    PLOsAnd, LateSeasons, IncludesPLOs, Limited, Archery, Muzzleloader, Rifle,
    AllManners>>

\* the phrases of a title of a limited-license table
LicenseChoices == {<<>>, <<<<"A","n","t","l","e","r","e","d">>>>, <<<<"A","n","t","l","e","r","l","e","s","s">>>>, <<<<"E","i","t","h","e","r","-","s","e","x">>>>}
SeasonChoices ==
  {<<>>, <<<<"2","n","d"," ","S","e","a","s","o","n">>>>, <<<<"3","r","d"," ","S","p","l","i","t">>>>, <<<<"4","t","h"," "," ","S","e","a","s","o","n">>>>, <<<<"S","e","c","o","n","d"," ","S","e","a","s","o","n">>>>}
WeaponChoices == {<<>>, <<Rifle>>, <<Archery>>}

\* the elements of `phrases` at the indices ks, in their order
pick(phrases, ks) ==
  [n \in 1..Cardinality(ks) |->
     phrases[CHOOSE i \in ks : Cardinality({j \in ks : j < i}) = n - 1]]

\* the lists of at most `most` of the phrases, in their order
sub_lists(phrases, most) ==
  {pick(phrases, ks) : ks \in {x \in SUBSET (1..Len(phrases)) : Cardinality(x) <= most}}

\* the titles the classifier is given, each as the list of its phrases
TitleSpace ==
  {<<Lead>> \o sh \o br :
     sh \in ShapeChoices, br \in sub_lists(BranchPhrases, MaxPhrases)}
  \cup
  {<<Lead>> \o sh \o tp \o br :
     sh \in ShapeChoices, tp \in sub_lists(TopPhrases, MaxTops) \ {<<>>},
     br \in sub_lists(BranchPhrases, 1)}
  \cup
  {<<Lead>> \o sh \o lm \o lc \o sn \o wp :
     sh \in {<<PercentSuccess>>, <<RecreationDays>>}, lm \in {<<>>, <<Limited>>},
     lc \in LicenseChoices, sn \in SeasonChoices, wp \in WeaponChoices}

TitleRifle      == <<"2","0","1","9"," ","E","l","k"," ","R","e","c","r","e","a","t","i","o","n"," ","D","a","y","s"," ","S","e","c","o","n","d"," ","R","i","f","l","e">>
TitleSuccess    == <<"2","0","1","9"," ","E","l","k"," ","P","e","r","c","e","n","t"," ","S","u","c","c","e","s","s"," ","A","r","c","h","e","r","y">>
TitleBosque     == <<"2","0","1","9"," ","E","l","k"," ","R","e","c","r","e","a","t","i","o","n"," ","D","a","y","s"," ","B","o","s","q","u","e"," ","d","e","l"," ","O","s","o">>
TitleDAU        == <<"2","0","1","9"," ","E","l","k"," ","H","a","r","v","e","s","t"," ","b","y"," ","D","A","U"," ","w","i","t","h"," ","C","o","n","f","i","d","e","n","c","e">>
TitleConfidence == <<"2","0","1","9"," ","E","l","k"," ","H","u","n","t","e","r","s"," ","C","o","n","f","i","d","e","n","c","e"," ","I","n","t","e","r","v","a","l","s">>
Title2020       == <<"2","0","2","0"," ","E","l","k"," ","P","e","r","c","e","n","t"," ","S","u","c","c","e","s","s"," ","R","i","f","l","e">>

\* a number below a million as the reports print it: "1,132"
numeral(n) ==
  IF n < 1000 THEN str(n)
  ELSE str(n \div 1000) \o <<",", DigitChar((n \div 100) % 10),
                                 DigitChar((n \div 10) % 10), DigitChar(n % 10)>>

\* a data line written from its numbers: the numerals, blank-separated
numbers_line(ns) == join([k \in 1..Len(ns) |-> numeral(ns[k])])

Numbers201 == <<201, 50, 120, 10, 180, 300, 60, 900>>
Numbers12  == <<12, 7, 0, 1, 8, 45, 17, 1230>>
Success201 == <<201, 40, 90, 44, 30, 80, 37>>

\* the rows of eight numbers of the texts
NumberRows == {Numbers201, Numbers12}

LineDAU     == <<"E","-","0","1"," ","3","7","3"," ","0"," ","3","7","3"," ","3","7","3"," ","2","1","4"," ","7"," ","2","0","1"," ","2","2","8"," ","5","7","%"," ","1",",","6","5","2"," ","3","3"," ","1",",","5","8","9"," ","1",",","7","1","8"," ","0",".","9","7"," ","0",".","6","4">>
LineDAU12   == <<"E","-","1","2"," ","3","8","6"," ","5"," ","3","7","6"," ","3","9","7"," ","2","2","2"," ","9"," ","2","0","4"," ","2","4","1"," ","5","7",".","5"," ","1","7","9","2"," ","5","9"," ","1","6","8","1"," ","1","9","1","1"," ","0",".","9","5","9"," ","0",".","5","5","2">>
LineBosque  == <<"2","n","d"," ","R","i","f","l","e"," ","1","0"," ","5"," ","0"," ","1","5"," ","4","0"," ","3","8"," ","1","2","0">>
LineHeader  == <<"U","n","i","t"," ","B","u","l","l","s"," ","C","o","w","s"," ","C","a","l","v","e","s">>
LineNote    == <<"S","t","a","t","e","w","i","d","e"," ","e","s","t","i","m","a","t","e">>

\* the lines of the texts given to the splitter
LinePool ==
  {TitleRifle, TitleBosque, TitleConfidence, Title2020,
   numbers_line(Numbers201), LineHeader, LineNote}

\* the lines of the texts given to the line parsers
ParsePool ==
  {TitleRifle, TitleSuccess, TitleBosque, TitleDAU,
   numbers_line(Numbers201), numbers_line(Numbers12), numbers_line(Success201),
   LineDAU, LineBosque}

\* the lines of the texts with several sections of rows
OrderPool ==
  {TitleRifle, TitleBosque, TitleDAU,
   numbers_line(Numbers201), numbers_line(Numbers12), LineDAU, LineDAU12}

\* the texts given to the normalization of ordinals: every text of up to
\* MaxChars characters of two spaced ordinals and a blank, and the four
\* spaced ordinals
OrdinalTexts ==
  UNION {[1..n -> {"1", "4", "s", "t", "h", " "}] : n \in 0..MaxChars}
    \cup {<<"1"," ","s"," ","t">>, <<"2"," ","n"," ","d">>, <<"3"," ","r"," ","d">>, <<"4"," ","t"," ","h">>, <<"2"," "," ","n"," ","d"," ","3"," ","r"," "," ","d">>}

\* the DAU tokens E-<digits>, with and without leading zeros
RawDAUs == {<<"E","-">> \o ds : ds \in UNION {[1..n -> Digit] : n \in 1..MaxDigits}}

\* a line of a DAU table for the DAU token
dau_line(raw_dau) ==
  raw_dau \o <<" ","3","8","6"," ","5"," ","3","7","6"," ","3","9","7"," ","2","2","2"," ","9"," ","2","0","4"," ","2","4","1"," ","5","7",".","5"," ","1","7","9","2"," ","5","9"," ","1","6","8","1"," ","1","9","1","1"," ","0",".","9","5","9"," ","0",".","5","5","2">>

\* footer rows of the two unit tables, a row whose zero is written as a dash,
\* and a percent_success title of more than 60 characters
LineTotal        == <<"T","o","t","a","l"," ","5","0"," ","1","2","0"," ","1","0"," ","1","8","0"," ","3","0","0"," ","6","0"," ","9","0","0">>
LineSuccessTotal == <<"T","o","t","a","l"," ","4","0"," ","9","0"," ","4","4"," ","3","0"," ","8","0"," ","3","7">>

\* a data line written from its numbers with a bare dash for a zero
dashed_line(ns) ==
  join([k \in 1..Len(ns) |-> IF ns[k] = 0 THEN <<"-">> ELSE numeral(ns[k])])

\* "201 50 - 10 180 300 60 1,132"
NumbersDash      == <<201, 50, 0, 10, 180, 300, 60, 1132>>
LineDash         == dashed_line(NumbersDash)
TitleLong        == <<"2","0","1","9"," ","E","l","k"," ","P","e","r","c","e","n","t"," ","S","u","c","c","e","s","s"," ","f","o","r"," ","A","l","l"," ","M","a","n","n","e","r","s"," ","o","f"," ","T","a","k","e"," ","i","n"," ","A","l","l"," ","R","i","f","l","e"," ","S","e","a","s","o","n","s">>

\* the lines of the texts with footers and notes
ReportPool ==
  {TitleRifle, TitleLong, numbers_line(Numbers12),
   LineTotal, LineSuccessTotal, LineNote, LineDash}

\* the lines of the texts whose records are counted
CountPool ==
  {TitleRifle, TitleSuccess, numbers_line(Numbers201), LineTotal, numbers_line(Success201)}

\* the lines of the Bosque del Oso tables: rows by season, the row of the
\* totals, a row of a unit, and a row by season whose percentage has a
\* decimal point, which neither pattern matches
LineBosqueLate    == <<"L","a","t","e"," ","R","i","f","l","e"," ","1"," ","0"," ","0"," ","1"," ","9"," ","1","1"," ","3","0">>
LineBosqueTotal   == <<"T","o","t","a","l"," ","1","1"," ","5"," ","0"," ","1","6"," ","4","9"," ","3","2"," ","1","5","0">>
LineBosqueUnit    == <<"8","5"," ","4"," ","1","1"," ","0"," ","1","5"," ","7","5"," ","2","0"," ","2","4","5">>
LineBosqueDecimal == <<"2","n","d"," ","R","i","f","l","e"," ","1","0"," ","5"," ","0"," ","1","5"," ","4","0"," ","3","8",".","5"," ","1","2","0">>

\* the most lines of a text of Bosque del Oso tables
MaxBosqueLines == 4

BosquePool ==
  {TitleBosque, LineBosque, LineBosqueLate, LineBosqueTotal, LineBosqueUnit,
   LineBosqueDecimal, LineNote}

\* rows of a Bosque del Oso table whose ordinal the extraction has and has
\* not spaced out, and a title with a spaced ordinal
LineBosqueFirst  == <<"1","s","t"," ","R","i","f","l","e"," ","1","0"," ","5"," ","0"," ","1","5"," ","4","0"," ","3","8"," ","1","2","0">>
LineBosqueSpaced == <<"1"," ","s"," ","t"," ","R","i","f","l","e"," ","1","0"," ","5"," ","0"," ","1","5"," ","4","0"," ","3","8"," ","1","2","0">>
TitleSpaced      == <<"2","0","1","9"," ","E","l","k"," ","R","e","c","r","e","a","t","i","o","n"," ","D","a","y","s"," ","2"," ","n"," ","d"," ","R","i","f","l","e">>

\* the most lines of a text with spaced ordinals
MaxSpacedLines == 3

SpacedPool == {TitleBosque, TitleSpaced, LineBosqueFirst, LineBosqueSpaced, LineNote}

\* a line of a DAU table with a percentage float() rejects
LineDAUBad == <<"E","-","3"," ","3","8","6"," ","5"," ","3","7","6"," ","3","9","7"," ","2","2","2"," ","9"," ","2","0","4"," ","2","4","1"," ","5",".","7",".","5"," ","1","7","9","2"," ","5","9"," ","1","6","8","1"," ","1","9","1","1"," ","0",".","9","5","9"," ","0",".","5","5","2">>

\* the texts of pages: two tables of contents (one by its heading, with the
\* year; one by its dotted lines, without), the methodology page, pages of
\* tables (one with blanks around a row, a page number and an empty line),
\* a page without a title, a page of a report of 1999, and a page whose DAU
\* table has the line float() rejects
PageContents    == join_lines(<<<<"C","o","n","t","e","n","t","s">>, <<"2","0","1","9"," ","C","o","l","o","r","a","d","o"," ","E","l","k"," ","H","a","r","v","e","s","t"," ","R","e","p","o","r","t">>, <<"T","a","b","l","e","s"," ","5">>>>)
PageDots        == join_lines([k \in 1..6 |-> <<"S","e","c","o","n","d"," ","R","i","f","l","e"," ",".",".",".","."," ","5">>])
PageMethodology == join_lines(<<<<"M","e","t","h","o","d","o","l","o","g","y">>, <<"A"," ","s","t","r","a","t","i","f","i","e","d"," ","r","a","n","d","o","m"," ","s","a","m","p","l","e"," ","o","f"," ","2","0","2","0"," "," ","E","l","k"," ","h","u","n","t","e","r","s">>>>)
PageRifle       == join_lines(<<TitleRifle, <<" "," ","2","0","1"," ","5","0"," ","1","2","0"," ","1","0"," ","1","8","0"," ","3","0","0"," ","6","0"," ","9","0","0"," ">>, <<"1","7">>, <<>>>>)
PageSuccess2020 == join_lines(<<Title2020, numbers_line(Success201)>>)
PageNoTitle     == join_lines(<<LineNote, numbers_line(Numbers12)>>)
PageOld         == join_lines(<<<<"1","9","9","9"," ","E","l","k"," ","R","e","c","r","e","a","t","i","o","n"," ","D","a","y","s"," ","S","e","c","o","n","d"," ","R","i","f","l","e">>, numbers_line(Numbers201)>>)
PageBadDAU      == join_lines(<<TitleRifle, numbers_line(Numbers12), TitleDAU, LineDAUBad>>)

\* what page.extract_text() returns for the pages of the documents: None
\* or the text of a page
PagePool ==
  {None, Some(PageContents), Some(PageDots), Some(PageMethodology), Some(PageRifle),
   Some(PageSuccess2020), Some(PageNoTitle), Some(PageOld)}

\* the most pages of a document and the most documents of a batch
MaxPages == 2
MaxDocs == 3

\* the documents given to extract_full_text: a file name and the pages
\* pdfplumber finds in the file
ExtractDocs ==
  {[path |-> <<"r",".","p","d","f">>, pdf |-> Some(pages)] :
     pages \in UNION {[1..n -> PagePool] : n \in 0..MaxPages}}

\* the documents of the batches: two reports, a file without a year, a file
\* whose DAU table makes parse_float raise, a file pdfplumber cannot open
\* (pdf is None) and a file whose name does not end in .pdf
BatchDocs ==
  {[path |-> <<"r","1","9",".","p","d","f">>, pdf |-> Some(<<Some(PageContents), Some(PageRifle)>>)],
   [path |-> <<"R","2","0",".","P","D","F">>, pdf |-> Some(<<Some(PageSuccess2020)>>)],
   [path |-> <<"s","c","a","n",".","p","d","f">>, pdf |-> Some(<<Some(PageNoTitle)>>)],
   [path |-> <<"d","a","u",".","p","d","f">>, pdf |-> Some(<<Some(PageBadDAU)>>)],
   [path |-> <<"g","o","n","e",".","p","d","f">>, pdf |-> None],
   [path |-> <<"r","1","9",".","t","x","t">>, pdf |-> Some(<<Some(PageRifle)>>)]}

\* the pages of the documents
DocPages ==
  {doc.pdf[1] : doc \in {d \in ExtractDocs \cup BatchDocs : d.pdf # None}}

Extracts == [pages \in DocPages |-> extract_full_text(pages)]

\* extract_full_text(pdf_path) for a document of the texts, looked up
extracted_text(pages) == Extracts[pages]

Splits == [pages \in DocPages |-> split_lines(extract_full_text(pages).text)]

\* full_text.split('\n') for a document of the texts, looked up
text_lines(pages) == Splits[pages]

\* the lines of the texts of the pages, as extract_full_text cleans them,
\* and the one line of an empty text
PageLines ==
  {<<>>} \cup UNION {{clean_lines(split_lines(page[1]))[k] :
                        k \in 1..Len(clean_lines(split_lines(page[1])))} :
                      page \in (PagePool \cup {Some(PageBadDAU)}) \ {None}}

AllLines ==
  LinePool \cup ParsePool \cup OrderPool \cup ReportPool \cup CountPool \cup PageLines
    \cup BosquePool \cup SpacedPool

Matches == [l \in AllLines |-> line_matches(l)]

\* line_matches(line) for a line of the texts, looked up
matches(line) == Matches[line]

-----------------------------------------------------------------------------
(* parse_section and the parsers it dispatches to *)

\* a rec_days parser that reads the bulls and the cows from each other's group
harvest_line_records_swapped(meta, m, year, species) ==
  IF m # None
  THEN <<HarvestRecord(year, species, m[1][1], meta.method, meta.season,
                       meta.license_type,
                       <<m[1][3], m[1][2]>> \o SubSeq(m[1], 4, 8), DefaultSuccess,
                       meta.table_type, meta.raw_title)>>
  ELSE <<>>

\* lines 493-512: the record of a line HARVEST_LINE_RE matches (m is the
\* parsed match), nothing for a total row or an unparsed line
harvest_line_records(meta, m, year, species) ==
  IF m # None
  THEN <<HarvestRecord(year, species, m[1][1], meta.method, meta.season,
                       meta.license_type, Tail(m[1]), DefaultSuccess,
                       meta.table_type, meta.raw_title)>>
  ELSE <<>>

\* a percent_success parser that gives every record the method "unknown"
success_line_records_untagged(meta, m, year, species) ==
  IF m # None
  THEN <<HarvestRecord(year, species, m[1][1], "unknown", meta.season,
                       meta.license_type, DefaultCounts,
                       [k \in 1..6 |-> Some(m[1][k + 1])],
                       meta.table_type, meta.raw_title)>>
  ELSE <<>>

\* a percent_success parser that also writes the harvest and the hunters of
\* the antlered into total_harvest and total_hunters
success_line_records_with_totals(meta, m, year, species) ==
  IF m # None
  THEN <<HarvestRecord(year, species, m[1][1], meta.method, meta.season,
                       meta.license_type, <<0, 0, 0, m[1][2], m[1][3], 0, 0>>,
                       [k \in 1..6 |-> Some(m[1][k + 1])],
                       meta.table_type, meta.raw_title)>>
  ELSE <<>>

\* lines 521-539
success_line_records(meta, m, year, species) ==
  IF m # None
  THEN <<HarvestRecord(year, species, m[1][1], meta.method, meta.season,
                       meta.license_type, DefaultCounts,
                       [k \in 1..6 |-> Some(m[1][k + 1])],
                       meta.table_type, meta.raw_title)>>
  ELSE <<>>

\* lines 552-578
dau_line_records(m, year, species) ==
  IF m # None THEN <<DAURecord(year, species, m[1][1], m[1])>> ELSE <<>>

\* a DAU line whose percent or rate group float() rejects
dau_line_raises(m) ==
  m # None /\ \E k \in {10, 15, 16} : "raised" \in DOMAIN m[1][k]

parse_dau_section(lines, year, species) ==
  concat([k \in 1..Len(lines) |-> dau_line_records(matches(lines[k]).dau, year, species)])

\* a parse_bosque_section without the `continue` of the row of the totals
bosque_line_records_with_total(meta, m, m2, year, species) ==
  IF m # None
  THEN <<HarvestRecord(year, species, 851,
                       bosque_method(season_map(m[1].season_name)[1]),
                       season_map(m[1].season_name)[2], "None",
                       m[1].counts, DefaultSuccess, "bosque", meta.raw_title)>>
  ELSE IF m2 # None
  THEN <<HarvestRecord(year, species, m2[1][1], "bosque_all", "all", "None",
                       Tail(m2[1]), DefaultSuccess, "bosque", meta.raw_title)>>
  ELSE <<>>

\* lines 594-651: the by-season pattern first (m), the unit pattern second (m2)
bosque_line_records(meta, m, m2, year, species) ==
  IF m # None
  THEN IF m[1].season_name = <<"T","o","t","a","l">> THEN <<>>
       ELSE <<HarvestRecord(year, species, 851,
                            bosque_method(season_map(m[1].season_name)[1]),
                            season_map(m[1].season_name)[2], "None",
                            m[1].counts, DefaultSuccess, "bosque", meta.raw_title)>>
  ELSE IF m2 # None
  THEN <<HarvestRecord(year, species, m2[1][1], "bosque_all", "all", "None",
                       Tail(m2[1]), DefaultSuccess, "bosque", meta.raw_title)>>
  ELSE <<>>

parse_bosque_section(lines, year, species, meta) ==
  concat([k \in 1..Len(lines) |->
            bosque_line_records(meta, matches(lines[k]).bosque, matches(lines[k]).harvest,
                                year, species)])

\* parse_section raises (ValueError, from parse_float in parse_dau_section)
\* instead of returning
parse_section_raises(meta, lines) ==
  /\ meta.table_type = "dau_summary"
  /\ \E k \in 1..Len(lines) : dau_line_raises(matches(lines[k]).dau)

\* the records parse_section returns when it returns
parse_section(meta, lines, year, species) ==
  IF meta.table_type = "dau_summary" THEN parse_dau_section(lines, year, species)
  ELSE IF meta.table_type = "bosque" THEN parse_bosque_section(lines, year, species, meta)
  ELSE IF meta.table_type = "harvest_rec_days"
    THEN concat([k \in 1..Len(lines) |->
                   harvest_line_records(meta, matches(lines[k]).harvest, year, species)])
  ELSE IF meta.table_type = "percent_success"
    THEN concat([k \in 1..Len(lines) |->
                   success_line_records(meta, matches(lines[k]).success, year, species)])
  ELSE <<>>

-----------------------------------------------------------------------------
(* Section splitting: what split_into_sections makes of one line *)

\* the end of a match of \b<d>\s+<a>\s+<b>\b that starts at p, 0 when none
spaced_ordinal_end(t, p, d, a, b) ==
  LET run(q) == {n \in 1..(Len(t) - q) : \A j \in 1..n : t[q + j] \in Whitespace}
      ends == {e \in (p + 4)..Len(t) :
                 /\ t[p] = d
                 /\ (p = 1 \/ t[p - 1] \notin WordChar)
                 /\ \E n1 \in run(p) : /\ p + n1 + 1 < e
                                       /\ t[p + n1 + 1] = a
                                       /\ e - (p + n1 + 1) - 1 \in run(p + n1 + 1)
                 /\ t[e] = b
                 /\ (e = Len(t) \/ t[e + 1] \notin WordChar)}
  IN  IF ends = {} THEN 0 ELSE CHOOSE e \in ends : TRUE

\* re.sub(r'\b<d>\s+<a>\s+<b>\b', '<d><a><b>', t), from position p on
RECURSIVE sub_spaced_ordinal(_, _, _, _, _)
sub_spaced_ordinal(t, p, d, a, b) ==
  IF p > Len(t) THEN <<>>
  ELSE LET e == spaced_ordinal_end(t, p, d, a, b)
       IN  IF e > 0 THEN <<d, a, b>> \o sub_spaced_ordinal(t, e + 1, d, a, b)
           ELSE <<t[p]>> \o sub_spaced_ordinal(t, p + 1, d, a, b)

\* a normalization that knows "1 s t" only
normalize_first_ordinal(text) == sub_spaced_ordinal(text, 1, "1", "s", "t")

\* lines 37-43
normalize_spaced_ordinals(text) ==
  LET t1 == sub_spaced_ordinal(text, 1, "1", "s", "t")
      t2 == sub_spaced_ordinal(t1, 1, "2", "n", "d")
      t3 == sub_spaced_ordinal(t2, 1, "3", "r", "d")
  IN  sub_spaced_ordinal(t3, 1, "4", "t", "h")

\* lines 375-378: the test for a section title
is_title_line(normalized, year_str) ==
  /\ startswith(normalized, year_str)
  /\ contains(normalized, <<"E","l","k">>)
  /\ \/ contains(normalized, <<"R","e","c","r","e","a","t","i","o","n"," ","D","a","y","s">>)
     \/ contains(normalized, <<"P","e","r","c","e","n","t"," ","S","u","c","c","e","s","s">>)
     \/ contains(normalized, <<"C","o","n","f","i","d","e","n","c","e">>)

\* lines 393-417: the header, sub-header and note lines that are skipped
is_header_line(normalized) ==
  \/ startswith(normalized, <<"T","o","t","a","l"," ","T","o","t","a","l"," ","P","e","r","c","e","n","t"," ","T","o","t","a","l">>)
  \/ startswith(normalized, <<"U","n","i","t"," ","B","u","l","l","s"," ","C","o","w","s"," ","C","a","l","v","e","s">>)
  \/ startswith(normalized, <<"A","n","t","l","e","r","e","d"," ","A","n","t","l","e","r","e","d">>)
  \/ startswith(normalized, <<"U","n","i","t"," ","H","a","r","v","e","s","t"," ","H","u","n","t","e","r","s">>)
  \/ startswith(normalized, <<"T","o","t","a","l"," ","H","u","n","t","e","r","s">>) \/ startswith(normalized, <<"P","e","r","c","e","n","t">>)
  \/ startswith(normalized, <<"D","A","U"," ","e","s","t","i","m","a","t","e"," ","S","E">>) \/ startswith(normalized, <<"D","A","U"," ","e","s","t","i","m","a","t","e">>)
  \/ startswith(normalized, <<"T","o","t","a","l"," ","D","a","y","s">>) \/ startswith(normalized, <<"T","o","t","a","l"," ","R","e","c","r","e","a","t","i","o","n">>)
  \/ startswith(normalized, <<"S","e","a","s","o","n">>) \/ startswith(normalized, <<"T","o","t","a","l"," ","T","o","t","a","l">>)
  \/ startswith(normalized, <<"U","n","i","t"," ","B","u","l","l","s">>) \/ startswith(normalized, <<"U","n","i","t"," ","H","a","r","v","e","s","t">>)
  \/ normalized = <<"P","e","r","c","e","n","t">>
  \/ normalized \in {<<"S","u","c","c","e","s","s">>, <<"R","a","t","e">>, <<"I","n","t","e","r","v","a","l","s">>}
  \/ startswith(normalized, <<"*">>)
  \/ (contains(normalized, <<"D","a","t","a"," ","A","n","a","l","y","s","i","s"," ","U","n","i","t">>) /\ contains(normalized, <<"M","a","p">>))

\* what the loop body finds out about a normalized line before it touches
\* its state
normalized_scan(normalized, year_str) ==
  [title  |-> is_title_line(normalized, year_str),
   meta   |-> classify_section(normalized),
   header |-> is_header_line(normalized)]

line_scan(line, year_str) == normalized_scan(normalize_spaced_ordinals(line), year_str)

Scans == [y \in Years, l \in AllLines |-> line_scan(l, str(y))]

\* line_scan(line, str(year)) for a line of the texts, looked up
scan(line, year) == Scans[year, line]

-----------------------------------------------------------------------------
(* State *)

VARIABLES
  pc,              \* where parse_elk_harvest_pdf is: "split", "parse", "done",
                   \* "raised" (an exception left it), "idle" (not running)
  year,            \* the report year extract_full_text returned
  lines,           \* split_into_sections: the lines the loop has been through
  sections,        \* split_into_sections: the (meta, lines) pairs completed
  current_meta,    \* split_into_sections: None or Some(meta of the open section)
  current_lines,   \* split_into_sections: the buffer of the open section
  records,         \* parse_elk_harvest_pdf: the records of the section parsed last
  all_harvest,     \* parse_elk_harvest_pdf: the harvest records so far
  all_dau,         \* parse_elk_harvest_pdf: the DAU records so far
  sections_detail, \* parse_elk_harvest_pdf: one section_info per parsed section
  warnings,        \* the log.warning calls made for sections without records
  debug_log,       \* the log.debug calls that report unparsed lines
  cpc,             \* the classifier called on its own: "idle", "title", "classified"
  title_parts,     \* the phrases the title given to the classifier is made of
  classified,      \* what classify_section returned for that title
  DEBUG_DUMP,      \* the module's flag of line 34, set by --debug
  pdf_files,       \* __main__: the documents named on the command line, in order
  done,            \* __main__: how many of them the loop has been through
  full_text,            \* parse_elk_harvest_pdf: the lines of the text of the document
  all_data,        \* __main__: the results of the documents parsed so far
  failures,        \* __main__: the log.error calls made for documents
  call,            \* a function called on its own: "idle", its name, "returned"
  arg,             \* the argument of that call
  ret              \* what the call returned

splitter_vars == <<lines, sections, current_meta, current_lines>>
assembler_vars == <<records, all_harvest, all_dau, sections_detail, warnings, debug_log>>
classifier_vars == <<cpc, title_parts, classified>>
main_vars == <<DEBUG_DUMP, pdf_files, done, full_text, all_data, failures>>
call_vars == <<call, arg, ret>>
outer_vars == <<classifier_vars, main_vars, call_vars>>
vars == <<pc, year, splitter_vars, assembler_vars, outer_vars>>

-----------------------------------------------------------------------------
(* split_into_sections, one line at a time *)

\* a flush that lets a section without lines go
flush_nonempty(secs, meta, buffer) ==
  IF meta # None /\ buffer # <<>> THEN Append(secs, <<meta[1], buffer>>) ELSE secs

\* lines 379-381 and 422-424: the open section, if any, joins the sections
flush(secs, meta, buffer) ==
  IF meta # None THEN Append(secs, <<meta[1], buffer>>) ELSE secs

\* a loop body that buffers a line whether or not a section is open
split_line_unguarded(line, found) ==
  IF found.title
  THEN /\ sections' = flush(sections, current_meta, current_lines)
       /\ current_meta' = found.meta
       /\ current_lines' = <<>>
  ELSE IF found.header
  THEN UNCHANGED <<sections, current_meta, current_lines>>
  ELSE /\ current_lines' = Append(current_lines, line)
       /\ UNCHANGED <<sections, current_meta>>

\* a loop body that keeps the open section when a title is not classified
split_line_keeping(line, found) ==
  IF found.title
  THEN /\ sections' = flush(sections, current_meta, current_lines)
       /\ current_meta' = IF found.meta = None THEN current_meta ELSE found.meta
       /\ current_lines' = <<>>
  ELSE IF found.header
  THEN UNCHANGED <<sections, current_meta, current_lines>>
  ELSE IF current_meta # None
  THEN /\ current_lines' = Append(current_lines, line)
       /\ UNCHANGED <<sections, current_meta>>
  ELSE UNCHANGED <<sections, current_meta, current_lines>>

\* lines 374-420: the body of the loop for a line, `found` being what the
\* tests of the body find about it
split_line(line, found) ==
  IF found.title
  THEN /\ sections' = flush(sections, current_meta, current_lines)
       /\ current_meta' = found.meta
       /\ current_lines' = <<>>
  ELSE IF found.header
  THEN UNCHANGED <<sections, current_meta, current_lines>>
  ELSE IF current_meta # None
  THEN /\ current_lines' = Append(current_lines, line)
       /\ UNCHANGED <<sections, current_meta>>
  ELSE UNCHANGED <<sections, current_meta, current_lines>>

\* lines 370-420: one turn of the loop, for the next line of the text
SplitLine(line) ==
  /\ pc = "split"
  /\ lines' = Append(lines, line)
  /\ split_line(line, scan(line, year))
  /\ UNCHANGED <<pc, year, assembler_vars, outer_vars>>

\* lines 422-426: the text is at its end (text.split('\n') has a first line
\* even when the text is empty)
SplitFinish ==
  /\ pc = "split"
  /\ Len(lines) >= 1
  /\ sections' = flush(sections, current_meta, current_lines)
  /\ pc' = "parse"
  /\ UNCHANGED <<year, lines, current_meta, current_lines, assembler_vars, outer_vars>>

-----------------------------------------------------------------------------
(* parse_elk_harvest_pdf, lines 687-740 *)

\* lines 712-719: the lines of a buffer that count as content
real_lines(buffer) ==
  SelectSeq(buffer, LAMBDA l :
    /\ strip(l) # <<>>
    /\ ~startswith(l, <<"T","o","t","a","l"," ","T","o","t","a","l">>)
    /\ ~startswith(l, <<"U","n","i","t"," ","B","u","l","l","s">>)
    /\ ~startswith(l, <<"A","n","t","l","e","r","e","d"," ","A","n","t","l","e","r","e","d">>)
    /\ ~startswith(l, <<"U","n","i","t"," ","H","a","r","v","e","s","t">>)
    /\ ~startswith(l, <<"T","o","t","a","l"," ","H","u","n","t","e","r","s">>)
    /\ ~startswith(l, <<"D","A","U"," ","e","s","t","i","m","a","t","e">>)
    /\ l \notin {<<"S","u","c","c","e","s","s">>, <<"R","a","t","e">>, <<"P","e","r","c","e","n","t">>, <<"I","n","t","e","r","v","a","l","s">>})

\* a section_info that tells only whether the section has records
section_info_flag(meta, recs) ==
  [title |-> take(meta.raw_title, 80), type |-> meta.table_type, method |-> meta.method,
   season |-> meta.season, license_type |-> meta.license_type,
   records |-> IF recs = <<>> THEN 0 ELSE 1]

\* lines 697-704: the entry of a section in sections_detail
section_info(meta, recs) ==
  [title |-> take(meta.raw_title, 80), type |-> meta.table_type, method |-> meta.method,
   season |-> meta.season, license_type |-> meta.license_type, records |-> Len(recs)]

\* lines 721-725: the warning for a section with content and no record, and
\* with it, under DEBUG_DUMP, the first five of the lines it counts as unparsed
empty_section_warning(meta, real) ==
  [type |-> meta.table_type, method |-> meta.method, season |-> meta.season,
   title |-> take(meta.raw_title, 60),
   unparsed |-> IF DEBUG_DUMP THEN Some(take(real, 5)) ELSE None]

\* lines 515-517, 542-543 and 580-581: the lines of a section that
\* parse_section reports as unparsed
unparsed_lines(meta, buffer) ==
  LET parser == IF meta.table_type = "harvest_rec_days" THEN "harvest"
                ELSE IF meta.table_type = "percent_success" THEN "success" ELSE "DAU"
      unparsed == SelectSeq(buffer, LAMBDA l :
    IF meta.table_type = "harvest_rec_days"
    THEN /\ matches(l).harvest = None /\ ~matches(l).harvest_total
         /\ strip(l) # <<>> /\ ~startswith(l, <<"S","e","a","s","o","n","s">>)
    ELSE IF meta.table_type = "percent_success"
    THEN /\ matches(l).success = None /\ ~matches(l).success_total
         /\ strip(l) # <<>> /\ ~startswith(l, <<"S","e","a","s","o","n","s">>)
    ELSE IF meta.table_type = "dau_summary"
    THEN matches(l).dau = None /\ strip(l) # <<>> /\ ~startswith(l, <<"I","n","t","e","r","v","a","l","s">>)
    ELSE FALSE)
  IN  [k \in 1..Len(unparsed) |-> [parser |-> parser, line |-> unparsed[k]]]

\* the lines of a DAU section that come before the line parse_float raises on
lines_before_raise(buffer) ==
  SubSeq(buffer, 1, (CHOOSE k \in 1..Len(buffer) :
                       /\ dau_line_raises(matches(buffer[k]).dau)
                       /\ \A j \in 1..(k - 1) : ~dau_line_raises(matches(buffer[j]).dau)) - 1)

\* an extend that puts the new records in front
extend_front(list, recs) == recs \o list

\* all_harvest.extend(harvest_recs), all_dau.extend(dau_recs)
extend(list, recs) == list \o recs

\* a loop body that warns about every section without records
assemble_warning_always(meta, buffer, recs) ==
  /\ records' = recs
  /\ all_dau' = extend(all_dau, SelectSeq(recs, IsDAURecord))
  /\ all_harvest' = extend(all_harvest, SelectSeq(recs, IsHarvestRecord))
  /\ sections_detail' = Append(sections_detail, section_info(meta, recs))
  /\ warnings' = IF recs = <<>>
                 THEN Append(warnings, empty_section_warning(meta, real_lines(buffer)))
                 ELSE warnings
  /\ debug_log' = debug_log \o unparsed_lines(meta, buffer)

\* lines 690-725: what the loop does with the records of a section
assemble(meta, buffer, recs) ==
  /\ records' = recs
  /\ all_dau' = extend(all_dau, SelectSeq(recs, IsDAURecord))
  /\ all_harvest' = extend(all_harvest, SelectSeq(recs, IsHarvestRecord))
  /\ sections_detail' = Append(sections_detail, section_info(meta, recs))
  /\ warnings' = IF recs = <<>> /\ real_lines(buffer) # <<>>
                 THEN Append(warnings, empty_section_warning(meta, real_lines(buffer)))
                 ELSE warnings
  /\ debug_log' = debug_log \o unparsed_lines(meta, buffer)

\* lines 687-725: one turn of the loop over the sections
ParseSection ==
  /\ pc = "parse"
  /\ Len(sections_detail) < Len(sections)
  /\ IF parse_section_raises(sections[Len(sections_detail) + 1][1],
                             sections[Len(sections_detail) + 1][2])
     THEN /\ pc' = "raised"
          /\ debug_log' = debug_log \o
               unparsed_lines(sections[Len(sections_detail) + 1][1],
                              lines_before_raise(sections[Len(sections_detail) + 1][2]))
          /\ UNCHANGED <<records, all_harvest, all_dau, sections_detail, warnings>>
     ELSE /\ assemble(sections[Len(sections_detail) + 1][1],
                      sections[Len(sections_detail) + 1][2],
                      parse_section(sections[Len(sections_detail) + 1][1],
                                    sections[Len(sections_detail) + 1][2], year, "elk"))
          /\ pc' = pc
  /\ UNCHANGED <<year, splitter_vars, outer_vars>>

\* the pdf_path parse_elk_harvest_pdf is called with: the document the loop
\* of __main__ is at, or no name when the function is called by itself
pdf_path == IF done < Len(pdf_files) THEN pdf_files[done + 1].path ELSE <<>>

\* lines 727-740: the result is built and returned
Finish ==
  /\ pc = "parse"
  /\ Len(sections_detail) = Len(sections)
  /\ pc' = "done"
  /\ UNCHANGED <<year, splitter_vars, assembler_vars, outer_vars>>

\* the dict parse_elk_harvest_pdf returns
result ==
  [year |-> year, species |-> "elk", source_file |-> pdf_path, harvest_records |-> all_harvest,
   dau_records |-> all_dau, sections_parsed |-> Len(sections),
   sections_detail |-> sections_detail]

-----------------------------------------------------------------------------
(* __main__, lines 872-905: the loop over the documents of the command line *)

\* an except clause that gives up the rest of the batch
fail_and_stop(error) ==
  /\ failures' = Append(failures, [source_file |-> pdf_path, error |-> error])
  /\ done' = Len(pdf_files)
  /\ pc' = "main"

\* an except clause that logs nothing
fail_silently(error) ==
  /\ done' = done + 1
  /\ pc' = "main"
  /\ UNCHANGED failures

\* lines 883-886: the except clause logs the document and the exception and
\* the loop goes on
fail(error) ==
  /\ failures' = Append(failures, [source_file |-> pdf_path, error |-> error])
  /\ done' = done + 1
  /\ pc' = "main"

\* a parse that starts with the records of the document before
start_parse_keeping(pages) ==
  /\ pc' = "split"
  /\ year' = extracted_text(pages).year[1]
  /\ full_text' = text_lines(pages)
  /\ lines' = <<>> /\ sections' = <<>> /\ current_meta' = None /\ current_lines' = <<>>
  /\ records' = <<>> /\ sections_detail' = <<>>
  /\ UNCHANGED <<all_harvest, all_dau, warnings, debug_log, done, failures>>

\* lines 678-685 and 363-368: the year is known, the text is split into
\* lines and the locals of the parse are fresh
start_parse(pages) ==
  /\ pc' = "split"
  /\ year' = extracted_text(pages).year[1]
  /\ full_text' = text_lines(pages)
  /\ lines' = <<>> /\ sections' = <<>> /\ current_meta' = None /\ current_lines' = <<>>
  /\ records' = <<>> /\ all_harvest' = <<>> /\ all_dau' = <<>> /\ sections_detail' = <<>>
  /\ UNCHANGED <<warnings, debug_log, done, failures>>

\* lines 874-879 and 673-681: the loop takes the next name; a name that does
\* not end in .pdf is passed over; pdfplumber.open may raise; a document
\* without a year makes parse_elk_harvest_pdf raise ValueError; otherwise
\* the parse starts
NextDocument ==
  /\ pc = "main"
  /\ done < Len(pdf_files)
  /\ IF ~endswith(lower(pdf_path), <<".","p","d","f">>)
     THEN /\ done' = done + 1
          /\ UNCHANGED <<pc, year, full_text, splitter_vars, assembler_vars, failures>>
     ELSE IF pdf_files[done + 1].pdf = None
     THEN /\ fail("pdfplumber.open raised")
          /\ UNCHANGED <<year, full_text, splitter_vars, assembler_vars>>
     ELSE IF extracted_text(pdf_files[done + 1].pdf[1]).year = None
     THEN /\ fail("ValueError: Could not determine year")
          /\ UNCHANGED <<year, full_text, splitter_vars, assembler_vars>>
     ELSE start_parse(pdf_files[done + 1].pdf[1])
  /\ UNCHANGED <<classifier_vars, DEBUG_DUMP, pdf_files, all_data, call_vars>>

\* lines 370-420, for the next line of the document's text
SplitTextLine ==
  /\ Len(lines) < Len(full_text)
  /\ SplitLine(full_text[Len(lines) + 1])

\* lines 422-426, when the loop has been through the document's text
SplitTextEnd ==
  /\ Len(lines) = Len(full_text)
  /\ SplitFinish

\* lines 878-886: parse_elk_harvest_pdf has returned, the result is exported
\* (export_to_csv and export_to_json write files and return) and joins
\* all_data; or it has raised and the except clause logs it
EndDocument ==
  /\ pc \in {"done", "raised"}
  /\ done < Len(pdf_files)
  /\ IF pc = "done"
     THEN /\ all_data' = Append(all_data, result)
          /\ done' = done + 1
          /\ pc' = "main"
          /\ UNCHANGED failures
     ELSE /\ fail("ValueError: could not convert string to float")
          /\ UNCHANGED all_data
  /\ UNCHANGED <<year, full_text, splitter_vars, assembler_vars, classifier_vars,
                 DEBUG_DUMP, pdf_files, call_vars>>

\* lines 888-905: the loop is over (the combined file is written from
\* all_data when it has more than one result)
MainDone ==
  /\ pc = "main"
  /\ done = Len(pdf_files)
  /\ pc' = "exit"
  /\ UNCHANGED <<year, splitter_vars, assembler_vars, outer_vars>>

-----------------------------------------------------------------------------
(* Specifications *)

ClassifierIdle == cpc = "idle" /\ title_parts = <<>> /\ classified = None

\* the locals of parse_elk_harvest_pdf and split_into_sections when they start
Locals ==
  /\ lines = <<>> /\ sections = <<>> /\ current_meta = None /\ current_lines = <<>>
  /\ records = <<>> /\ all_harvest = <<>> /\ all_dau = <<>>
  /\ sections_detail = <<>> /\ warnings = <<>> /\ debug_log = <<>>

\* __main__ is not running: parse_elk_harvest_pdf is called by itself
MainIdle == pdf_files = <<>> /\ done = 0 /\ full_text = <<>> /\ all_data = <<>> /\ failures = <<>>

CallIdle == call = "idle" /\ arg = <<>> /\ ret = <<>>

\* parse_elk_harvest_pdf from line 680 on, the year known
Init ==
  /\ pc = "split"
  /\ year \in Years
  /\ Locals
  /\ ClassifierIdle
  /\ DEBUG_DUMP = FALSE /\ MainIdle /\ CallIdle

\* the document's text has at most `most` lines, all of them lines of `pool`
Step(pool, most) ==
  \/ \E line \in pool : Len(lines) < most /\ SplitLine(line)
  \/ SplitFinish
  \/ ParseSection
  \/ Finish

Next == Step(LinePool, MaxLines)

Spec == Init /\ [][Next]_vars

NextParse == Step(ParsePool, MaxParseLines)

InitParse == Init /\ year = 2019

SpecParse == InitParse /\ [][NextParse]_vars

\* classify_section called on its own with a title of the title space
InitClassify ==
  /\ pc = "idle"
  /\ year = 2019
  /\ Locals
  /\ cpc = "title"
  /\ title_parts \in TitleSpace
  /\ classified = None
  /\ DEBUG_DUMP = FALSE /\ MainIdle /\ CallIdle

\* lines 60-168: the call returns
Classify ==
  /\ cpc = "title"
  /\ classified' = classify_section(join(title_parts))
  /\ cpc' = "classified"
  /\ UNCHANGED <<pc, year, splitter_vars, assembler_vars, title_parts, main_vars, call_vars>>

NextClassify == Classify

SpecClassify == InitClassify /\ [][NextClassify]_vars

\* the rows below the title: a row of eight numbers and a row of seven
DescriptorBuffer == <<numbers_line(Numbers201), numbers_line(Success201)>>

\* lines 380-384 and 687-725: the descriptor classify_section returned for a
\* title is the descriptor of the section the title opens, and the rows of
\* the section are parsed with it
ParseClassified ==
  /\ cpc = "classified"
  /\ classified # None
  /\ assemble(classified[1], DescriptorBuffer,
              parse_section(classified[1], DescriptorBuffer, year, "elk"))
  /\ cpc' = "parsed"
  /\ UNCHANGED <<pc, year, splitter_vars, title_parts, classified, main_vars, call_vars>>

NextDescriptor ==
  \/ Classify
  \/ ParseClassified

SpecDescriptor == InitClassify /\ [][NextDescriptor]_vars

\* the titles of limited-license tables: a table type, "Limited", a license
\* phrase, a season phrase and a weapon
LimitedSeasons ==
  {<<>>, <<<<"1","s","t"," ","S","e","a","s","o","n">>>>, <<<<"2","n","d"," ","S","e","a","s","o","n">>>>, <<<<"3","r","d"," ","S","e","a","s","o","n">>>>, <<<<"4","t","h"," "," ","S","e","a","s","o","n">>>>,
   <<<<"1","s","t"," ","S","p","l","i","t">>>>, <<<<"2","n","d"," ","S","p","l","i","t">>>>, <<<<"3","r","d"," ","S","p","l","i","t">>>>, <<<<"4","t","h"," ","S","p","l","i","t">>>>,
   <<<<"5","t","h"," ","S","e","a","s","o","n">>>>, <<<<"5","t","h"," ","S","p","l","i","t">>>>, <<<<"S","e","c","o","n","d"," ","S","e","a","s","o","n">>>>, <<<<"S","p","l","i","t"," ","S","e","a","s","o","n">>>>}

LimitedTitles ==
  {<<Lead>> \o sh \o <<Limited>> \o lc \o sn \o wp :
     sh \in {<<PercentSuccess>>, <<RecreationDays>>},
     lc \in LicenseChoices, sn \in LimitedSeasons, wp \in WeaponChoices}

\* classify_section called on its own with the title of a limited-license table
InitLimited ==
  /\ pc = "idle"
  /\ year = 2019
  /\ Locals
  /\ cpc = "title"
  /\ title_parts \in LimitedTitles
  /\ classified = None
  /\ DEBUG_DUMP = FALSE /\ MainIdle /\ CallIdle

SpecLimited == InitLimited /\ [][NextClassify]_vars

NextOrder == Step(OrderPool, MaxOrderLines)

SpecOrder == InitParse /\ [][NextOrder]_vars

\* the texts with footers and notes, parsed with and without --debug
InitReport ==
  /\ pc = "split"
  /\ year = 2019
  /\ Locals
  /\ ClassifierIdle
  /\ DEBUG_DUMP \in BOOLEAN /\ MainIdle /\ CallIdle

NextReport == Step(ReportPool, MaxReportLines)

SpecReport == InitReport /\ [][NextReport]_vars

NextCount == Step(CountPool, MaxCountLines)

SpecCount == InitParse /\ [][NextCount]_vars

\* texts of Bosque del Oso tables
NextBosque == Step(BosquePool, MaxBosqueLines)

SpecBosque == InitParse /\ [][NextBosque]_vars

\* texts whose lines have spaced ordinals
NextSpaced == Step(SpacedPool, MaxSpacedLines)

SpecSpaced == InitParse /\ [][NextSpaced]_vars

\* parse_dau_section called on its own with one line of a DAU table
InitCanon ==
  /\ pc = "idle"
  /\ year = 2019
  /\ Locals
  /\ ClassifierIdle
  /\ DEBUG_DUMP = FALSE /\ MainIdle
  /\ call = "parse_dau_section"
  /\ arg \in {dau_line(raw_dau) : raw_dau \in RawDAUs}
  /\ ret = <<>>

\* lines 548-582: the call returns the records of the line
ParseDAULine ==
  /\ call = "parse_dau_section"
  /\ ret' = dau_line_records(dau_row_values(DAU_LINE_RE(arg)), year, "elk")
  /\ call' = "returned"
  /\ UNCHANGED <<pc, year, splitter_vars, assembler_vars, classifier_vars, main_vars, arg>>

NextCanon == ParseDAULine

\* __main__ at line 872, with a batch of documents, with and without --debug
InitBatch ==
  /\ pc = "main"
  /\ year = 0
  /\ Locals
  /\ ClassifierIdle
  /\ DEBUG_DUMP \in BOOLEAN
  /\ pdf_files \in UNION {[1..n -> BatchDocs] : n \in 1..MaxDocs}
  /\ done = 0 /\ full_text = <<>> /\ all_data = <<>> /\ failures = <<>>
  /\ CallIdle

NextBatch ==
  \/ NextDocument
  \/ SplitTextLine
  \/ SplitTextEnd
  \/ ParseSection
  \/ Finish
  \/ EndDocument
  \/ MainDone

SpecBatch == InitBatch /\ [][NextBatch]_vars

\* the program runs on: a step that can be taken is taken
SpecBatchFair == InitBatch /\ [][NextBatch]_vars /\ WF_vars(NextBatch)

\* __main__ at line 872 with one document, of any pages of the page pool
InitExtract ==
  /\ pc = "main"
  /\ year = 0
  /\ Locals
  /\ ClassifierIdle
  /\ DEBUG_DUMP = FALSE
  /\ pdf_files \in {<<doc>> : doc \in ExtractDocs}
  /\ done = 0 /\ full_text = <<>> /\ all_data = <<>> /\ failures = <<>>
  /\ CallIdle

SpecExtract == InitExtract /\ [][NextBatch]_vars

\* normalize_spaced_ordinals called on a text, and again on what it returned
InitNormalize ==
  /\ pc = "idle"
  /\ year = 2019
  /\ Locals
  /\ ClassifierIdle
  /\ DEBUG_DUMP = FALSE /\ MainIdle
  /\ call = "normalize_spaced_ordinals"
  /\ arg \in OrdinalTexts
  /\ ret = <<>>

\* lines 37-43: the call returns; ret holds what the calls so far returned
Normalize ==
  /\ call = "normalize_spaced_ordinals"
  /\ Len(ret) < 2
  /\ ret' = Append(ret, normalize_spaced_ordinals(IF ret = <<>> THEN arg ELSE ret[Len(ret)]))
  /\ UNCHANGED <<pc, year, splitter_vars, assembler_vars, classifier_vars, main_vars, call, arg>>

NextNormalize == Normalize

SpecNormalize == InitNormalize /\ [][NextNormalize]_vars

SpecCanon == InitCanon /\ [][NextCanon]_vars

\* the digits a DAU is written with in the two tables
JoinDigits == {"0", "1", "7"}
DAUNumerals == UNION {[1..n -> JoinDigits] : n \in 1..MaxDigits}

\* what follows the DAU in a line of a population table: herd, units,
\* population, with and without a ratio; a ratio written with a comma; a
\* footnote mark
PopulationRests ==
  {<<" ","B","e","a","r","s"," ","E","a","r","s"," ","3",","," ","4",","," ","5"," ","2","1",",","3","0","0">>, <<" "," ","W","h","i","t","e"," ","R","i","v","e","r","*","*","*"," ","1","1",","," ","1","2"," ","4","0",",","1","0","0"," ","2","4">>, <<" ","C","o","l","d"," ","S","p","r","i","n","g","s"," ","2"," ","1",",","2","0","0"," ","1",",","2">>}

\* its DAU line in a harvest report and its line in a population table
\* given for a DAU, each to its parser, in either order
InitJoin ==
  /\ pc = "idle"
  /\ year \in Years
  /\ Locals
  /\ ClassifierIdle
  /\ DEBUG_DUMP = FALSE /\ MainIdle
  /\ call = "join"
  /\ arg \in {[harvest |-> dau_line(<<"E","-">> \o h), population |-> q \o rest, has_ratio |-> b] :
                h \in DAUNumerals, q \in DAUNumerals, rest \in PopulationRests, b \in BOOLEAN}
  /\ ret = <<>>

\* parse_harvest_report.py lines 548-582 on the DAU line
JoinHarvestLine ==
  /\ call = "join"
  /\ \A k \in 1..Len(ret) : ret[k].parser # "harvest"
  /\ ret' = Append(ret, [parser |-> "harvest", raised |-> FALSE,
                          records |-> dau_line_records(dau_row_values(DAU_LINE_RE(arg.harvest)),
                                                       year, "elk")])
  /\ UNCHANGED <<pc, year, splitter_vars, assembler_vars, classifier_vars, main_vars, call, arg>>

\* parse_elk_population.py lines 156-244 on the line of the population table
JoinPopulationLine ==
  /\ call = "join"
  /\ \A k \in 1..Len(ret) : ret[k].parser # "population"
  /\ ret' = Append(ret, [parser |-> "population",
                          raised |-> population_line_raises(arg.population, arg.has_ratio),
                          records |-> IF population_line_raises(arg.population, arg.has_ratio)
                                      THEN <<>>
                                      ELSE population_line_records(arg.population,
                                                                   arg.has_ratio, year)])
  /\ UNCHANGED <<pc, year, splitter_vars, assembler_vars, classifier_vars, main_vars, call, arg>>

NextJoin == JoinHarvestLine \/ JoinPopulationLine

SpecJoin == InitJoin /\ [][NextJoin]_vars

-----------------------------------------------------------------------------
(* The sections a text has, read off its lines                               *)

\* line i of the text is a section title
TitleAt(i) == scan(lines[i], year).title

\* line i is a title the classifier classifies: it opens a section
OpensAt(i) == TitleAt(i) /\ scan(lines[i], year).meta # None

\* line i is neither a title nor a header, sub-header or note
DataAt(i) == ~TitleAt(i) /\ ~scan(lines[i], year).header

\* the n-th smallest element of a set of numbers
nth(set, n) == CHOOSE i \in set : Cardinality({j \in set : j < i}) = n - 1

\* the titles among the first `upto` lines that open a section
Openings(upto) == {i \in 1..upto : OpensAt(i)}

\* the data lines between the title at line i and the next title, as indices
BodyOf(i) ==
  {k \in (i + 1)..Len(lines) : DataAt(k) /\ \A j \in (i + 1)..k : ~TitleAt(j)}

\* the (descriptor, buffer) pair of the section the title at line i opens
SectionOf(i) ==
  <<scan(lines[i], year).meta[1],
    [n \in 1..Cardinality(BodyOf(i)) |-> lines[nth(BodyOf(i), n)]]>>

\* the sections of the titles in `opening`, in document order
SectionsOf(opening) ==
  [n \in 1..Cardinality(opening) |-> SectionOf(nth(opening, n))]

\* the last title among the lines so far, 0 when there is none
LastTitle ==
  IF \E i \in 1..Len(lines) : TitleAt(i)
  THEN CHOOSE i \in 1..Len(lines) : TitleAt(i) /\ \A j \in (i + 1)..Len(lines) : ~TitleAt(j)
  ELSE 0

-----------------------------------------------------------------------------
(* split_into_sections *)

\* C1: when split_into_sections has returned, its result holds, in document
\* order, exactly one (descriptor, buffer) pair for every title line the
\* classifier classifies, the last one and those with an empty buffer
\* included, and each buffer holds in input order exactly the lines between
\* its title and the next title line that are not header lines.
C1_SectionsOfClassifiedTitles ==
  pc \in {"parse", "done", "raised"} => sections = SectionsOf(Openings(Len(lines)))

\* a text of two classified titles: the first section is empty, a header
\* line of the second is skipped and the second, with a line in its buffer,
\* is still open at the end of the text
C1_Witness ==
  /\ pc = "parse"
  /\ Len(sections) = 2
  /\ sections[1][2] = <<>>
  /\ sections[2][2] # <<>>
  /\ current_meta # None
  /\ \E i \in 1..Len(lines) : lines[i] = LineHeader

\* C2: as long as no line of the stream has been a title the classifier
\* classifies, no section has been completed and none is open with lines in
\* its buffer; and a step of the loop that takes a line that is no title
\* while no section is open leaves the completed sections, the open section
\* and the buffer as they are.
C2_NothingBeforeFirstTitle ==
  Openings(Len(lines)) = {} =>
    sections = <<>> /\ current_meta = None /\ current_lines = <<>>

C2_DiscardStep ==
  (/\ pc = "split" /\ pc' = "split"
   /\ current_meta = None
   /\ Len(lines') = Len(lines) + 1
   /\ ~scan(lines'[Len(lines')], year).title)
  => (sections' = sections /\ current_meta' = None /\ current_lines' = <<>>)

C2_LinesBeforeFirstTitleDiscarded ==
  []C2_NothingBeforeFirstTitle /\ [][C2_DiscardStep]_vars

\* a data line came first and was dropped, then a classified title, then a
\* data line that is the whole buffer of the open section
C2_Witness ==
  /\ pc = "split"
  /\ Len(lines) = 3
  /\ DataAt(1)
  /\ OpensAt(2)
  /\ DataAt(3)
  /\ sections = <<>>
  /\ current_lines = <<lines[3]>>

\* C3: when the last title line met so far is one the classifier does not
\* classify, no section is open and no buffer is being filled, and the
\* completed sections are those of the classified titles before it, each
\* once and with the buffer it had when its next title was met: the lines
\* from the unclassified title on belong to no section.
C3_UnclassifiedTitleClosesSection ==
  (LastTitle > 0 /\ ~OpensAt(LastTitle)) =>
    /\ current_meta = None
    /\ current_lines = <<>>
    /\ sections = SectionsOf(Openings(LastTitle))

\* a section with one line was open when an unclassified title came; the
\* data line after that title went to no section
C3_Witness ==
  /\ pc = "split"
  /\ Len(lines) = 4
  /\ OpensAt(1) /\ DataAt(2)
  /\ TitleAt(3) /\ ~OpensAt(3)
  /\ DataAt(4)
  /\ Len(sections) = 1
  /\ sections[1][2] = <<lines[2]>>
  /\ current_meta = None

-----------------------------------------------------------------------------
(* classify_section *)

\* the title given to the classifier has the phrase p, one of the phrases ps
has(p) == \E i \in 1..Len(title_parts) : title_parts[i] = p
has_any(ps) == \E i \in 1..Len(title_parts) : title_parts[i] \in ps

\* the classifier returned a descriptor with these three fields
returned(table_type, method, season) ==
  /\ classified # None
  /\ classified[1].table_type = table_type
  /\ classified[1].method = method
  /\ classified[1].season = season

\* the title has a phrase of one of the first three checks
has_top == has_any(DAUMarkers) \/ has(BosqueMarker) \/ has_any(DamageMarkers)

\* the title has "Late Seasons" with no phrase naming PLOs before it
late_applies ==
  \E i \in 1..Len(title_parts) :
     /\ title_parts[i] = LateSeasons
     /\ \A j \in 1..(i - 1) :
           title_parts[j] \notin {EarlyPLO, LatePLO, PLOsAnd, IncludesPLOs}

\* the title has a phrase of a branch above the Limited one that applies
has_higher ==
  \/ has_any({RanchingForWildlife, EarlyHighCountry, PrivateLandOnly, EarlyPLO, LatePLO})
  \/ late_applies

\* C4: the first three checks of classify_section come in a fixed order and
\* before the table type: a title with a DAU marker is dau_summary with
\* method all and season all whatever else it has; one with "Bosque del Oso"
\* and no DAU marker is bosque with method bosque and season all; one with
\* "Damage", "AFA" or "Auction" and neither of those is harvest_rec_days with
\* method damage and season all, also when it has "Percent Success".
C4_FirstThreeChecks ==
  cpc = "classified" =>
    /\ has_any(DAUMarkers) => returned("dau_summary", "all", "all")
    /\ (~has_any(DAUMarkers) /\ has(BosqueMarker)) => returned("bosque", "bosque", "all")
    /\ (~has_any(DAUMarkers) /\ ~has(BosqueMarker) /\ has_any(DamageMarkers))
         => returned("harvest_rec_days", "damage", "all")

\* a title with "Auction" and "Percent Success" and no DAU or Bosque marker
\* came back as a rec_days damage title
C4_Witness ==
  /\ cpc = "classified"
  /\ has(<<"A","u","c","t","i","o","n">>) /\ has(PercentSuccess)
  /\ ~has_any(DAUMarkers) /\ ~has(BosqueMarker)
  /\ returned("harvest_rec_days", "damage", "all")

\* the season the Limited branch reads from the title's season phrase
token_season ==
  IF has(<<"3","r","d"," ","S","p","l","i","t">>) THEN "3rd_split"
  ELSE IF has(<<"2","n","d"," ","S","e","a","s","o","n">>) THEN "2nd"
  ELSE IF has(<<"4","t","h"," "," ","S","e","a","s","o","n">>) THEN "4th"
  ELSE "None"

\* C5: a title with a table-type phrase, "Limited", "Antlerless" and "Rifle"
\* and no phrase of a branch of higher priority is classified by the Limited
\* branch: method rifle, license type antlerless, the season read from the
\* split or season number, and not the Rifle branch's season and null
\* license type.
C5_LimitedBeforeRifle ==
  (/\ cpc = "classified"
   /\ has_any({PercentSuccess, RecreationDays})
   /\ has(Limited) /\ has(<<"A","n","t","l","e","r","l","e","s","s">>) /\ has(Rifle)
   /\ ~has_top /\ ~has_higher)
  => /\ classified # None
     /\ classified[1].method = "rifle"
     /\ classified[1].license_type = "antlerless"
     /\ classified[1].season = token_season

\* a Limited Antlerless 2nd Season title that also has "Rifle"
C5_Witness ==
  /\ cpc = "classified"
  /\ has(RecreationDays) /\ has(Limited) /\ has(<<"A","n","t","l","e","r","l","e","s","s">>) /\ has(Rifle)
  /\ has(<<"2","n","d"," ","S","e","a","s","o","n">>)
  /\ classified # None
  /\ classified[1].license_type = "antlerless"
  /\ classified[1].season = "2nd"

\* the method of the first branch, in the order of the cascade, that a phrase
\* of the title triggers
expected_method ==
  IF has(RanchingForWildlife) THEN "rfw"
  ELSE IF has(EarlyHighCountry) THEN "early_hc"
  ELSE IF has(EarlyPLO) THEN "plo_early"
  ELSE IF has(LatePLO) THEN "plo_late"
  ELSE IF has(PrivateLandOnly) THEN "plo"
  ELSE IF late_applies THEN (IF has(IncludesPLOs) THEN "late_incl_plo" ELSE "late")
  ELSE IF has(Limited) THEN "rifle"
  ELSE IF has(Archery) THEN "archery"
  ELSE IF has(Muzzleloader) THEN "muzzleloader"
  ELSE IF has(Rifle) THEN "rifle"
  ELSE IF has(AllManners) THEN "all"
  ELSE "unknown"

\* C6: for a title with "Percent Success" or "Recreation Days" and no phrase
\* of the first three checks, whatever phrases of the cascade it has, the
\* method is that of the branch of highest priority among those triggered,
\* in the order Ranching for Wildlife, Early High Country, private land
\* only, Late Seasons (with no PLO phrase before it), Limited, Archery,
\* Muzzleloader, Rifle, All Manners, unknown.
C6_CascadePriority ==
  (cpc = "classified" /\ has_any({PercentSuccess, RecreationDays}) /\ ~has_top)
  => (classified # None /\ classified[1].method = expected_method)

\* "Late Seasons" comes after a PLO phrase, so the Late branch does not
\* apply and the title, which also has "Archery" and "Rifle", is archery
C6_Witness ==
  /\ cpc = "classified"
  /\ has(RecreationDays)
  /\ has(PLOsAnd) /\ has(LateSeasons) /\ has(Archery) /\ has(Rifle)
  /\ classified # None
  /\ classified[1].method = "archery"

\* C7: a title with "Confidence", no DAU, Bosque or Damage marker and no
\* "Percent Success" is classified harvest_rec_days like one with
\* "Recreation Days", and the classifier returns None only for a title with
\* none of "Percent Success", "Recreation Days" and "Confidence".
C7_ConfidenceIsRecDays ==
  cpc = "classified" =>
    /\ (has(Confidence) /\ ~has_top /\ ~has(PercentSuccess))
         => (classified # None /\ classified[1].table_type = "harvest_rec_days")
    /\ classified = None => ~has_any({PercentSuccess, RecreationDays, Confidence})

\* what the code does with such a title: it returns None for every title
\* without "Percent Success", "Recreation Days" and a marker of the first
\* three checks, "Confidence" or not
C7_ConfidenceAloneIsNoTitle ==
  cpc = "classified" =>
    (classified = None <=> (~has_top /\ ~has_any({PercentSuccess, RecreationDays})))

C7_Witness ==
  /\ cpc = "classified"
  /\ has(Confidence) /\ ~has_top
  /\ classified = None

-----------------------------------------------------------------------------
(* parse_section and the assembly of a document's records *)

\* the section parsed last and the records it gave are sections[parsed] and
\* `records`
parsed == Len(sections_detail)

\* the records of the wanted kind that the lines of the first n sections
\* give, section by section and line by line
RecordsOf(n, wanted(_)) ==
  concat([s \in 1..n |->
    concat([k \in 1..Len(sections[s][2]) |->
      SelectSeq(parse_section(sections[s][1], <<sections[s][2][k]>>, year, "elk"),
                wanted)])])

\* C8: the harvest records and the DAU records of a document each stand in
\* the order of the sections they come from and, within a section, of the
\* lines they come from: each list is the records of the sections parsed so
\* far, section after section and line after line, nothing else and nothing
\* twice.
C8_RecordsInDocumentOrder ==
  pc \in {"parse", "done"} =>
    /\ all_harvest = RecordsOf(parsed, IsHarvestRecord)
    /\ all_dau = RecordsOf(parsed, IsDAURecord)

\* two rows of a rifle section and one of a Bosque section, in that order
C8_Witness ==
  /\ pc = "done"
  /\ Len(sections) = 2
  /\ Len(all_harvest) = 3
  /\ all_harvest[1].gmu = 201 /\ all_harvest[1].table_type = "harvest_rec_days"
  /\ all_harvest[2].gmu = 12 /\ all_harvest[2].table_type = "harvest_rec_days"
  /\ all_harvest[3].table_type = "bosque"

\* the record r carries the fields of the descriptor meta
carries(r, meta) ==
  /\ IsHarvestRecord(r)
  /\ r.section_method = meta.method
  /\ r.section_season = meta.season
  /\ r.section_license_type = meta.license_type
  /\ r.table_type = meta.table_type
  /\ r.section_title = meta.raw_title

C9_BosqueRecord ==
  /\ pc = "parse"
  /\ parsed > 0
  /\ sections[parsed][1].table_type = "bosque"
  /\ Len(records) = 1
  /\ records[1].section_method = "bosque_rifle"
  /\ records[1].section_season = "2nd"

\* the record of the row ns of a section with the descriptor meta
row_record(ns, meta) ==
  [gmu |-> ns[1], bulls |-> ns[2], cows |-> ns[3], calves |-> ns[4],
   total_harvest |-> ns[5], total_hunters |-> ns[6], pct_success |-> ns[7],
   total_rec_days |-> ns[8], section_method |-> meta.method,
   section_season |-> meta.season, section_license_type |-> meta.license_type]

\* the fields of a record the row and the descriptor decide
row_fields(r) ==
  [gmu |-> r.gmu, bulls |-> r.bulls, cows |-> r.cows, calves |-> r.calves,
   total_harvest |-> r.total_harvest, total_hunters |-> r.total_hunters,
   pct_success |-> r.pct_success, total_rec_days |-> r.total_rec_days,
   section_method |-> r.section_method, section_season |-> r.section_season,
   section_license_type |-> r.section_license_type]

\* the rows of eight numbers the lines of a buffer are written from
rows_of(buffer) ==
  concat([k \in 1..Len(buffer) |->
    IF \E ns \in NumberRows : buffer[k] = numbers_line(ns)
    THEN <<CHOOSE ns \in NumberRows : buffer[k] = numbers_line(ns)>>
    ELSE <<>>])

\* C10: in a harvest_rec_days section every line of eight numbers u b c k h
\* n p r gives exactly one HarvestRecord, with gmu u, bulls b, cows c,
\* calves k, total_harvest h, total_hunters n, pct_success p and
\* total_rec_days r and the method, season and license type of the section's
\* descriptor; so for "201 50 120 10 180 300 60 900".
C10_RecDaysRow ==
  (/\ pc \in {"parse", "done"} /\ parsed > 0
   /\ sections[parsed][1].table_type = "harvest_rec_days")
  => /\ Len(records) = Len(rows_of(sections[parsed][2]))
     /\ \A k \in 1..Len(records) :
          /\ IsHarvestRecord(records[k])
          /\ row_fields(records[k])
               = row_record(rows_of(sections[parsed][2])[k], sections[parsed][1])

\* the line "201 50 120 10 180 300 60 900" of a Second Rifle section
C10_Witness ==
  /\ pc = "parse"
  /\ parsed > 0
  /\ sections[parsed][1].table_type = "harvest_rec_days"
  /\ sections[parsed][2] = <<<<"2","0","1"," ","5","0"," ","1","2","0"," ","1","0"," ","1","8","0"," ","3","0","0"," ","6","0"," ","9","0","0">>>>
  /\ Len(records) = 1
  /\ records[1].gmu = 201 /\ records[1].bulls = 50 /\ records[1].cows = 120
  /\ records[1].total_rec_days = 900
  /\ records[1].section_method = "rifle" /\ records[1].section_season = "2nd"


-----------------------------------------------------------------------------
(* Footer rows, unparsed lines and the diagnostics of a document *)

\* the line is a footer row of a table of the type: "Total" and the numeric
\* columns of the shape after it
footer_line(table_type, l) ==
  \/ table_type = "harvest_rec_days" /\ matches(l).harvest_total
  \/ table_type = "percent_success" /\ matches(l).success_total

\* the records of the section parsed last are the records of its lines with
\* the footer rows left out
footers_give_no_record ==
  records = parse_section(sections[parsed][1],
                          SelectSeq(sections[parsed][2],
                                    LAMBDA l : ~footer_line(sections[parsed][1].table_type, l)),
                          year, "elk")

\* parse_section has reported no footer row of the section's shape as unparsed
no_footer_in_debug_log ==
  \A k \in 1..Len(debug_log) :
    /\ debug_log[k].parser = "harvest" => ~footer_line("harvest_rec_days", debug_log[k].line)
    /\ debug_log[k].parser = "success" => ~footer_line("percent_success", debug_log[k].line)

\* C11, the part that holds: a footer row of a rec_days or percent_success
\* section produces no record, the rows before and after it give their
\* records as usual, and parse_section does not report it as unparsed.
C11_FooterGivesNoRecord ==
  (pc \in {"parse", "done"} /\ parsed > 0
   /\ sections[parsed][1].table_type \in {"harvest_rec_days", "percent_success"})
  => footers_give_no_record /\ no_footer_in_debug_log

\* C11: a footer row ("Total" and the numeric columns of the shape) of a
\* rec_days or percent_success section never produces a record and is not
\* reported as an unparsed line, neither by parse_section nor in the list of
\* unparsed lines of a warning; the rows before and after it give their
\* records as usual.
C11_FooterNeitherRecordNorUnparsed ==
  (pc \in {"parse", "done"} /\ parsed > 0
   /\ sections[parsed][1].table_type \in {"harvest_rec_days", "percent_success"})
  => /\ footers_give_no_record /\ no_footer_in_debug_log
     /\ \A j \in 1..Len(warnings) :
          warnings[j].unparsed # None =>
            \A k \in 1..Len(warnings[j].unparsed[1]) :
              ~footer_line(warnings[j].type, warnings[j].unparsed[1][k])

\* a footer row between two rows of a rec_days section: two records
C11_FooterBetweenRows ==
  /\ pc = "parse" /\ parsed > 0
  /\ sections[parsed][2] = <<numbers_line(Numbers201), LineTotal, numbers_line(Numbers201)>>
  /\ Len(records) = 2
  /\ debug_log = <<>> /\ warnings = <<>>

\* under --debug, a rec_days section of a footer row and nothing else: the
\* warning lists the footer row among the unparsed lines
C11_FooterListedAsUnparsed ==
  /\ pc = "parse" /\ parsed > 0
  /\ sections[parsed][2] = <<LineTotal>>
  /\ records = <<>>
  /\ Len(warnings) = 1
  /\ warnings[1].unparsed = Some(<<LineTotal>>)


\* the lines of a buffer that are neither blank nor header lines
content_lines(buffer) ==
  SelectSeq(buffer, LAMBDA l : strip(l) # <<>> /\ ~scan(l, year).header)

\* the line gives no record in a section with the descriptor and is no
\* footer row of its shape
unparsed_line(meta, l) ==
  parse_section(meta, <<l>>, year, "elk") = <<>> /\ ~footer_line(meta.table_type, l)

\* the warning is one for the section with the descriptor: its type, method
\* and season and the first 60 characters of its title
warning_of(w, meta) ==
  /\ w.title = take(meta.raw_title, 60)
  /\ w.type = meta.table_type /\ w.method = meta.method /\ w.season = meta.season

RECURSIVE counted(_)
counted(n) == IF n = 0 THEN 0 ELSE counted(n - 1) + sections_detail[n].records

\* C13: sections_detail has one entry per section, in the order of the
\* sections (as many entries as sections have been parsed, all of them when
\* the result is returned), each with the title, type, method, season and
\* license type of its section and with the number of records its section
\* has given; so the counts sum to the number of harvest records plus DAU
\* records.
C13_OneEntryPerSection ==
  pc \in {"parse", "done"} =>
    /\ parsed <= Len(sections)
    /\ pc = "done" => parsed = Len(sections)
    /\ \A s \in 1..parsed :
         /\ sections_detail[s].title = take(sections[s][1].raw_title, 80)
         /\ sections_detail[s].type = sections[s][1].table_type
         /\ sections_detail[s].method = sections[s][1].method
         /\ sections_detail[s].season = sections[s][1].season
         /\ sections_detail[s].license_type = sections[s][1].license_type
         /\ sections_detail[s].records
              = Len(parse_section(sections[s][1], sections[s][2], year, "elk"))
    /\ counted(parsed) = Len(all_harvest) + Len(all_dau)
    /\ parsed > 0 => sections_detail[parsed].records = Len(records)

\* a rec_days section of two rows and a footer row and a percent_success
\* section of one row: three records, entries with counts 2 and 1
C13_Witness ==
  /\ pc = "done"
  /\ lines = <<TitleRifle, numbers_line(Numbers201), numbers_line(Numbers201), LineTotal,
               TitleSuccess, numbers_line(Success201)>>
  /\ Len(all_harvest) = 3 /\ all_dau = <<>>
  /\ Len(sections_detail) = 2
  /\ sections_detail[1].type = "harvest_rec_days" /\ sections_detail[1].records = 2
  /\ sections_detail[2].type = "percent_success" /\ sections_detail[2].records = 1
  /\ all_harvest[1].gmu = 201 /\ all_harvest[2].gmu = 201
  /\ all_harvest[3].table_type = "percent_success"


-----------------------------------------------------------------------------
(* Numeric tokens *)

\* C20: a data line in which a numeric column is a comma-grouped number or a
\* bare dash is accepted and gives a record, the comma-grouped token with
\* its integer value and the dash with 0: a rec_days section whose buffer is
\* the row 12 7 0 1 8 45 17 1230 written with "1,230", or the row
\* 201 50 0 10 180 300 60 1132 written with "-" and "1,132", gives exactly
\* the record of that row.
C20_CommaAndDashAccepted ==
  \A ns \in {Numbers12, NumbersDash} :
    (/\ pc \in {"parse", "done"} /\ parsed > 0
     /\ sections[parsed][1].table_type = "harvest_rec_days"
     /\ sections[parsed][2] = <<dashed_line(ns)>> \/ sections[parsed][2] = <<numbers_line(ns)>>)
    => /\ Len(records) = 1
       /\ row_fields(records[1]) = row_record(ns, sections[parsed][1])

\* C20, the part that holds: the row written with "1,230" gives its record
C20_CommaAccepted ==
  (/\ pc \in {"parse", "done"} /\ parsed > 0
   /\ sections[parsed][1].table_type = "harvest_rec_days"
   /\ sections[parsed][2] = <<numbers_line(Numbers12)>>)
  => /\ Len(records) = 1
     /\ row_fields(records[1]) = row_record(Numbers12, sections[parsed][1])

\* the row written with a dash has given no record and has been reported as
\* unparsed
C20_DashRowUnparsed ==
  /\ pc = "parse" /\ parsed = 1
  /\ sections[1][1].table_type = "harvest_rec_days"
  /\ sections[1][2] = <<<<"2","0","1"," ","5","0"," ","-"," ","1","0"," ","1","8","0"," ","3","0","0"," ","6","0"," ","1",",","1","3","2">>>>
  /\ records = <<>>
  /\ debug_log = <<[parser |-> "harvest", line |-> <<"2","0","1"," ","5","0"," ","-"," ","1","0"," ","1","8","0"," ","3","0","0"," ","6","0"," ","1",",","1","3","2">>]>>
  /\ Len(warnings) = 1


-----------------------------------------------------------------------------
(* DAU identifiers *)

\* the number a DAU token or identifier E-<digits> is written with
dau_number(token) == int(SubSeq(token, 3, Len(token)))

\* E-<n> with n in decimal without leading zero
canonical(token) ==
  /\ startswith(token, <<"E","-">>)
  /\ Len(token) >= 3
  /\ digits(SubSeq(token, 3, Len(token)))
  /\ token[3] = "0" => Len(token) = 3

\* C14: the record of a DAU line carries the canonical form of the line's
\* DAU token: "E-" and the token's number without leading zero ("E-01" and
\* "E-1" both give "E-1", "E-9" gives "E-9"); canonicalizing the canonical
\* form gives it again; and two tokens give the same identifier exactly when
\* they have the same number.
C14_DAUIdentifierCanonical ==
  call = "returned" =>
    /\ Len(ret) = 1 /\ IsDAURecord(ret[1])
    /\ LET raw_dau == tokens(arg)[1]
       IN  /\ canonical(ret[1].dau)
           /\ dau_number(ret[1].dau) = dau_number(raw_dau)
           /\ dau_id(ret[1].dau) = ret[1].dau
           /\ raw_dau \in {<<"E","-","0","1">>, <<"E","-","1">>} => ret[1].dau = <<"E","-","1">>
           /\ raw_dau = <<"E","-","9">> => ret[1].dau = <<"E","-","9">>
           /\ \A other \in RawDAUs :
                (dau_id(other) = ret[1].dau) <=> (dau_number(other) = dau_number(raw_dau))

\* the line of the DAU "E-01" has given a record with the identifier "E-1"
C14_Witness ==
  /\ call = "returned"
  /\ tokens(arg)[1] = <<"E","-","0","1">>
  /\ Len(ret) = 1
  /\ ret[1].dau = <<"E","-","1">>
  /\ ret[1].total_hunters = 386


-----------------------------------------------------------------------------
(* Spaced ordinals *)

\* C15: normalizing what normalize_spaced_ordinals returned gives it again,
\* for every text; and "1 s t", "2 n d", "3 r d", "4 t h" normalize to
\* "1st", "2nd", "3rd", "4th".
C15_NormalizationIdempotent ==
  /\ Len(ret) = 2 => ret[2] = ret[1]
  /\ Len(ret) >= 1 =>
       /\ arg = <<"1"," ","s"," ","t">> => ret[1] = <<"1","s","t">>
       /\ arg = <<"2"," ","n"," ","d">> => ret[1] = <<"2","n","d">>
       /\ arg = <<"3"," ","r"," ","d">> => ret[1] = <<"3","r","d">>
       /\ arg = <<"4"," ","t"," ","h">> => ret[1] = <<"4","t","h">>

\* a text with two spaced ordinals has been normalized twice
C15_Witness ==
  /\ arg = <<"2"," "," ","n"," ","d"," ","3"," ","r"," "," ","d">>
  /\ ret = <<<<"2","n","d"," ","3","r","d">>, <<"2","n","d"," ","3","r","d">>>>

\* a text in which a word character before the digit keeps the ordinal spaced
C15_NotAnOrdinal ==
  /\ arg = <<"s","1"," ","s"," ","t">>
  /\ Len(ret) = 2
  /\ ret[1] = arg


-----------------------------------------------------------------------------
(* The year of a document *)

\* the pages of the document the loop of __main__ is at or has just been at
pages_of(n) == pdf_files[n].pdf[1]

\* the page is one extract_full_text drops: a table of contents or the
\* methodology page
dropped(page) ==
  page # None /\ (is_toc(split_lines(page[1])) \/ is_methodology(page[1]))

\* a year and the subject noun, as year_ok(t, p, colorado) knows them, stand
\* on a dropped page or at the beginning of a line of the cleaned stream
year_shown(pages, year_ok(_, _, _)) ==
  \E k \in 1..Len(pages) :
    /\ pages[k] # None
    /\ IF dropped(pages[k])
       THEN \E p \in 1..Len(pages[k][1]) : year_ok(pages[k][1], p, TRUE)
       ELSE \E j \in 1..Len(clean_lines(split_lines(pages[k][1]))) :
              year_ok(clean_lines(split_lines(pages[k][1]))[j], 1, FALSE)

\* any four digits where year_at wants 20 and two digits
four_digits_at(t, p, colorado) ==
  /\ p + 1 <= Len(t) /\ t[p] \in Digit /\ t[p + 1] \in Digit
  /\ year_at([t EXCEPT ![p] = "2", ![p + 1] = "0"], p, colorado)

\* the document has failed for want of a year: no result, and a report that
\* names it
year_failure ==
  /\ all_data = <<>>
  /\ failures = <<[source_file |-> pdf_files[1].path,
                   error |-> "ValueError: Could not determine year"]>>

\* C16: with any four-digit year, the document
\* fails with the fatal error and gives no result if neither a dropped page
\* nor the beginning of a line of the cleaned stream shows a four-digit year
\* followed by the subject noun, and otherwise the year is found and there
\* is no such error.
C16_AnyFourDigitYear ==
  /\ pc \in {"split", "parse", "done"} => year_shown(pages_of(1), four_digits_at)
  /\ done = 1 =>
       IF year_shown(pages_of(1), four_digits_at)
       THEN failures = <<>> /\ Len(all_data) = 1
       ELSE year_failure

\* C16, the part that holds, for the years 20dd of the code's patterns: the
\* document fails with the fatal error (ValueError, reported with
\* the document's name) and gives no result if neither a dropped table of
\* contents or methodology page shows a year 20dd followed by the subject
\* noun (with "Colorado" between them or not) nor a line of the cleaned
\* stream begins with a year 20dd followed by the subject noun; otherwise
\* the year is found, the parse goes on and there is no such error.
C16_YearFoundOrFatal ==
  /\ pc \in {"split", "parse", "done"} =>
       /\ year_shown(pages_of(1), year_at)
       /\ year \in 2000..2099
       /\ failures = <<>>
  /\ done = 1 =>
       IF year_shown(pages_of(1), year_at)
       THEN failures = <<>> /\ Len(all_data) = 1 /\ all_data[1].year = year
       ELSE year_failure

\* a document of a table of contents without a year and a page without a
\* title has failed
C16_Witness ==
  /\ pages_of(1) = <<Some(PageDots), Some(PageNoTitle)>>
  /\ done = 1
  /\ year_failure

\* the year of a document comes from its table of contents, whatever the
\* pages that follow say
C16_YearFromContents ==
  /\ pages_of(1) = <<Some(PageContents), Some(PageSuccess2020)>>
  /\ done = 1
  /\ failures = <<>>
  /\ all_data[1].year = 2019
  /\ all_data[1].sections_parsed = 0

\* the year of a document without dropped pages comes from its first title
C16_YearFromTitle ==
  /\ pages_of(1) = <<None, Some(PageSuccess2020)>>
  /\ done = 1
  /\ all_data[1].year = 2020
  /\ Len(all_data[1].harvest_records) = 1

\* a report of 1999 has failed though its first line begins with a
\* four-digit year and the subject noun
C16_ReportOf1999 ==
  /\ pages_of(1) = <<Some(PageOld)>>
  /\ done = 1
  /\ year_failure


-----------------------------------------------------------------------------
(* Batches of documents *)

\* the n-th name of the command line ends in .pdf, in whatever case
named_pdf(n) == endswith(lower(pdf_files[n].path), <<".","p","d","f">>)

\* the names the loop has been through that end in .pdf, in input order
pdf_names_done ==
  LET named == {n \in 1..done : named_pdf(n)}
  IN  [j \in 1..Cardinality(named) |-> pdf_files[nth(named, j)].path]

\* the results and the failure reports are those of the names in `names`,
\* each name with one result or one report, both lists in the order of the
\* names
outcomes_in_order(names) ==
  /\ Len(all_data) + Len(failures) = Len(names)
  /\ \E parsed_ones \in SUBSET (1..Len(names)) :
       /\ Cardinality(parsed_ones) = Len(all_data)
       /\ \A j \in 1..Len(all_data) :
            all_data[j].source_file = names[nth(parsed_ones, j)]
       /\ \A j \in 1..Len(failures) :
            failures[j].source_file = names[nth((1..Len(names)) \ parsed_ones, j)]

\* the documents are taken one at a time in input order: the results and the
\* failure reports so far are those of the documents before the one the
\* loop is at, and a parse that is under way is that of the document the
\* loop is at
C17_InOrder ==
  /\ done <= Len(pdf_files)
  /\ outcomes_in_order(pdf_names_done)
  /\ pc \in {"split", "parse", "done", "raised"} => done < Len(pdf_files) /\ named_pdf(done + 1)

\* the loop has been through every name and has left
C17_AllReached == pc = "exit" /\ done = Len(pdf_files)

\* C17: the documents are processed one at a time in input order, and a
\* fatal error in one of them does not keep the later ones from being
\* parsed: once there is a failure report, the loop still gets through
\* every name, in order, each document that can be parsed giving its result.
C17_FailureDoesNotStopBatch ==
  /\ []C17_InOrder
  /\ [](failures # <<>> => <>(C17_AllReached /\ C17_InOrder))

\* a document whose parse raised half way, then a report: one failure
\* report and, after it, one result
C17_Witness ==
  /\ pc = "exit"
  /\ Len(pdf_files) = 2
  /\ pdf_files[1].path = <<"d","a","u",".","p","d","f">> /\ pdf_files[2].path = <<"r","1","9",".","p","d","f">>
  /\ Len(failures) = 1 /\ failures[1].source_file = <<"d","a","u",".","p","d","f">>
  /\ Len(all_data) = 1 /\ all_data[1].source_file = <<"r","1","9",".","p","d","f">>
  /\ Len(all_data[1].harvest_records) = 1

\* a failure report names its document and says why it failed
failure_report(f) ==
  /\ \E n \in 1..Len(pdf_files) : f.source_file = pdf_files[n].path
  /\ f.error \in {"pdfplumber.open raised", "ValueError: Could not determine year",
                  "ValueError: could not convert string to float"}

\* C18: when the batch is over, its N names have
\* given N outcomes, each a result or a failure report that names the
\* document and the reason, and no name is without an outcome.
C18_OneOutcomePerInput ==
  pc = "exit" =>
    /\ Len(all_data) + Len(failures) = Len(pdf_files)
    /\ \A j \in 1..Len(failures) : failure_report(failures[j])
    /\ \A n \in 1..Len(pdf_files) :
         \/ \E j \in 1..Len(all_data) : all_data[j].source_file = pdf_files[n].path
         \/ \E j \in 1..Len(failures) : failures[j].source_file = pdf_files[n].path

\* C18, the part that holds: when the batch is over, the names that end in
\* .pdf (in whatever case) have each given one outcome, in input order: a result with the
\* document's name, or a failure report that names the document and the
\* reason; a name that does not end in .pdf has given neither.
C18_OneOutcomePerPdfName ==
  pc = "exit" =>
    /\ done = Len(pdf_files)
    /\ outcomes_in_order(pdf_names_done)
    /\ \A j \in 1..Len(failures) : failure_report(failures[j])
    /\ \A n \in 1..Len(pdf_files) :
         ~named_pdf(n) =>
           /\ \A j \in 1..Len(all_data) : all_data[j].source_file # pdf_files[n].path
           /\ \A j \in 1..Len(failures) : failures[j].source_file # pdf_files[n].path

\* three documents, three outcomes: a result, a report for a file that
\* cannot be opened and a report for a file without a year
C18_Witness ==
  /\ pc = "exit"
  /\ Len(pdf_files) = 3
  /\ pdf_files[1].path = <<"R","2","0",".","P","D","F">>
  /\ Len(all_data) = 1 /\ all_data[1].source_file = <<"R","2","0",".","P","D","F">> /\ all_data[1].year = 2020
  /\ failures = <<[source_file |-> <<"g","o","n","e",".","p","d","f">>, error |-> "pdfplumber.open raised"],
                  [source_file |-> <<"s","c","a","n",".","p","d","f">>,
                   error |-> "ValueError: Could not determine year"]>>

\* a name that does not end in .pdf has been passed over without a word
C18_NamePassedOver ==
  /\ pc = "exit"
  /\ Len(pdf_files) = 2
  /\ pdf_files[1].path = <<"r","1","9",".","t","x","t">> /\ pdf_files[2].path = <<"r","1","9",".","p","d","f">>
  /\ Len(all_data) = 1 /\ failures = <<>>

\* C19: the result of a document does not depend on the documents parsed
\* before it. When parse_elk_harvest_pdf is about to return in a batch, its
\* result is what the document alone decides: the year and the lines
\* extract_full_text gives for its pages, the sections of these lines, the
\* records of these sections and one section_info for each of them; and
\* two results of the same document in one batch are equal.
C19_ResultOfDocumentAlone ==
  /\ pc = "done" =>
       /\ year = extract_full_text(pdf_files[done + 1].pdf[1]).year[1]
       /\ lines = split_lines(extract_full_text(pdf_files[done + 1].pdf[1]).text)
       /\ sections = SectionsOf(Openings(Len(lines)))
       /\ all_harvest = RecordsOf(Len(sections), IsHarvestRecord)
       /\ all_dau = RecordsOf(Len(sections), IsDAURecord)
       /\ sections_detail =
            [n \in 1..Len(sections) |->
               section_info(sections[n][1],
                            parse_section(sections[n][1], sections[n][2], year, "elk"))]
       /\ result.source_file = pdf_files[done + 1].path
  /\ \A i, j \in 1..Len(all_data) :
       all_data[i].source_file = all_data[j].source_file => all_data[i] = all_data[j]

\* the same report before and after a document whose parse raised with
\* records gathered: twice the same result
C19_Witness ==
  /\ pc = "exit"
  /\ Len(pdf_files) = 3
  /\ pdf_files[1].path = <<"r","1","9",".","p","d","f">> /\ pdf_files[2].path = <<"d","a","u",".","p","d","f">>
  /\ pdf_files[3].path = <<"r","1","9",".","p","d","f">>
  /\ Len(all_data) = 2
  /\ all_data[1] = all_data[2]
  /\ Len(all_data[1].harvest_records) = 1
  /\ all_data[1].harvest_records[1].gmu = 201

-----------------------------------------------------------------------------
(* The descriptors of classify_section *)

TableTypes == {"harvest_rec_days", "percent_success", "dau_summary", "bosque"}

\* C21: every descriptor classify_section returns has a table type and a
\* method that is not null; the method is "unknown" exactly for a title
\* with "Percent Success" or "Recreation Days", no phrase of the first
\* three checks and no phrase that triggers a branch of the method
\* cascade; and the rows of a section with such a descriptor give their
\* records, which are in the output with the method "unknown".
C21_UnknownMethodIsKept ==
  (cpc \in {"classified", "parsed"} /\ classified # None) =>
    /\ classified[1].table_type \in TableTypes
    /\ classified[1].method # "None"
    /\ classified[1].method = "unknown"
         <=> (has_any({PercentSuccess, RecreationDays}) /\ ~has_top
              /\ expected_method = "unknown")
    /\ (cpc = "parsed" /\ classified[1].method = "unknown") =>
         /\ Len(records) = 1
         /\ records[1].section_method = "unknown"
         /\ records[1].gmu = 201
         /\ all_harvest = records
         /\ sections_detail[1].method = "unknown" /\ sections_detail[1].records = 1

\* a rec_days title whose only phrase of the cascade is "PLOs and": the
\* method is unknown and the row of eight numbers is a record of it
C21_Witness ==
  /\ cpc = "parsed"
  /\ title_parts = <<Lead, RecreationDays, PLOsAnd>>
  /\ classified[1].method = "unknown" /\ classified[1].season = "all"
  /\ Len(all_harvest) = 1
  /\ all_harvest[1].section_method = "unknown"
  /\ all_harvest[1].total_rec_days = 900

\* the title has a phrase of LimitedSeasons
season_phrase == \E sn \in LimitedSeasons : sn # <<>> /\ has(sn[1])

\* the season tags of the Limited branch
LimitedTags ==
  {"1st", "2nd", "3rd", "4th", "1st_split", "2nd_split", "3rd_split", "4th_split"}

\* C23: the season of every descriptor classify_section returns is not
\* null, and for a title classified by the Limited branch it is one of
\* 1st, 2nd, 3rd, 4th, 1st_split, 2nd_split, 3rd_split, 4th_split, whatever
\* digit and wording the title has.
C23_LimitedSeasonIsTag ==
  (cpc = "classified" /\ classified # None) =>
    /\ classified[1].season # "None"
    /\ has(Limited) => classified[1].season \in LimitedTags

\* C23, the part that holds: a Limited title whose season phrase is
\* "<d>st|nd|rd|th Season" or "... Split" with d in 1..4 has the tag of d,
\* with _split for a split.
C23_SeasonOfOrdinalToken ==
  (cpc = "classified" /\ has(Limited)) =>
    /\ classified # None /\ classified[1].method = "rifle"
    /\ has(<<"1","s","t"," ","S","e","a","s","o","n">>) => classified[1].season = "1st"
    /\ has(<<"2","n","d"," ","S","e","a","s","o","n">>) => classified[1].season = "2nd"
    /\ has(<<"3","r","d"," ","S","e","a","s","o","n">>) => classified[1].season = "3rd"
    /\ has(<<"4","t","h"," "," ","S","e","a","s","o","n">>) => classified[1].season = "4th"
    /\ has(<<"1","s","t"," ","S","p","l","i","t">>) => classified[1].season = "1st_split"
    /\ has(<<"2","n","d"," ","S","p","l","i","t">>) => classified[1].season = "2nd_split"
    /\ has(<<"3","r","d"," ","S","p","l","i","t">>) => classified[1].season = "3rd_split"
    /\ has(<<"4","t","h"," ","S","p","l","i","t">>) => classified[1].season = "4th_split"

\* a Limited title without a season phrase: the season is null
C23_LimitedWithoutSeason ==
  /\ cpc = "classified"
  /\ title_parts = <<Lead, RecreationDays, Limited, <<"A","n","t","l","e","r","l","e","s","s">>>>
  /\ classified # None
  /\ classified[1].method = "rifle" /\ classified[1].season = "None"

\* a fifth season and a fifth split
C23_FifthSeason ==
  /\ cpc = "classified"
  /\ has(<<"5","t","h"," ","S","e","a","s","o","n">>)
  /\ classified # None /\ classified[1].season = "5"

C23_FifthSplit ==
  /\ cpc = "classified"
  /\ has(<<"5","t","h"," ","S","p","l","i","t">>)
  /\ classified # None /\ classified[1].season = "5th_split"

(***************************************************************************)
(* The lines of a section and the exceptions of the line parsers           *)
(***************************************************************************)

\* C22: no content of a buffered line aborts the parsing of the document:
\* the loop over the sections is never left by an exception, so when it has
\* stopped every section, the later ones included, has been parsed and has
\* its entry in sections_detail.
C22_NoLineAbortsParsing ==
  /\ pc # "raised"
  /\ pc = "done" => Len(sections_detail) = Len(sections)

\* the row "E-3 ... 5.7.5 ..." matches DAU_LINE_RE and float() rejects its
\* percent token: the document is left with the DAU section unparsed
C22_BadDecimalAborts ==
  /\ pc = "raised"
  /\ Len(sections) = 2 /\ Len(sections_detail) = 1
  /\ sections[2][1].table_type = "dau_summary"
  /\ sections[2][2] = <<LineDAUBad>>
  /\ all_dau = <<>>

(***************************************************************************)
(* The line stream of extract_full_text                                    *)
(***************************************************************************)

\* the pages of the document the loop of __main__ is at
pages_at_hand == pdf_files[done + 1].pdf[1]

\* the lines of the pages from page k on, page after page and line after
\* line, each with the number of its page
RECURSIVE page_line_stream(_, _)
page_line_stream(pages, k) ==
  IF k > Len(pages) THEN <<>>
  ELSE (IF pages[k] = None THEN <<>>
        ELSE [i \in 1..Len(split_lines(pages[k][1])) |-> <<k, split_lines(pages[k][1])[i]>>])
       \o page_line_stream(pages, k + 1)

\* the page is judged noise: more than five of its lines have a run of four
\* dots, or its first five lines have "Contents", or it has both
\* "Methodology" and "stratified random"
noise_page(t) ==
  \/ Cardinality({i \in 1..Len(split_lines(t)) : find(split_lines(t)[i], <<".",".",".",".">>) > 0}) > 5
  \/ \E i \in 1..Len(split_lines(t)) : i <= 5 /\ find(split_lines(t)[i], <<"C","o","n","t","e","n","t","s">>) > 0
  \/ find(t, <<"M","e","t","h","o","d","o","l","o","g","y">>) > 0 /\ find(t, <<"s","t","r","a","t","i","f","i","e","d"," ","r","a","n","d","o","m">>) > 0

\* the line is only a number of one to three digits
page_number(l) == Len(l) \in 1..3 /\ \A i \in 1..Len(l) : l[i] \in Digit

\* the lines the filter must let through, in order, without the blanks
\* around them
surviving_lines(pages) ==
  LET stream == page_line_stream(pages, 1)
      kept == SelectSeq(stream, LAMBDA e : /\ ~noise_page(pages[e[1]][1])
                                           /\ strip(e[2]) # <<>>
                                           /\ ~page_number(strip(e[2])))
  IN  [i \in 1..Len(kept) |-> strip(kept[i][2])]

\* C24: the line stream made from the pages of a document has no line of a
\* page judged table of contents or methodology, no line of a page without
\* text and no line that is only a number of one to three digits; every
\* other line that is not blank is in it exactly once, in the order of the
\* pages and of the lines (a stream without lines is the one empty line
\* text.split gives).
C24_NoiseFilter ==
  pc = "split" =>
    /\ full_text = (IF surviving_lines(pages_at_hand) = <<>> THEN <<<<>>>>
                    ELSE surviving_lines(pages_at_hand))
    /\ \A i \in 1..Len(full_text) : ~page_number(full_text[i])

\* a contents page and a page with a title, a row between blanks, a page
\* number and an empty line: the stream is the title and the row
C24_Witness ==
  /\ pc = "split"
  /\ pages_at_hand = <<Some(PageContents), Some(PageRifle)>>
  /\ full_text = <<TitleRifle, numbers_line(Numbers201)>>

(***************************************************************************)
(* The rows of a Bosque del Oso section                                    *)
(***************************************************************************)

\* what a record says of its row: method, season, unit and the first and
\* the last of its numbers
row_summary(rec) ==
  <<rec.section_method, rec.section_season, rec.gmu, rec.bulls, rec.total_rec_days>>

\* what the rows of the texts are to give, row by row
bosque_row_expected(line) ==
  CASE line = LineBosque      -> <<(<<"bosque_rifle", "2nd", 851, 10, 120>>)>>
    [] line = LineBosqueLate  -> <<(<<"bosque_rifle", "late", 851, 1, 30>>)>>
    [] line = LineBosqueUnit  -> <<(<<"bosque_all", "all", 85, 4, 245>>)>>
    [] OTHER                  -> <<>>

\* C25: in a bosque section a row by named season gives one record with the
\* method of the season prefixed bosque_ and the season of the row ("2nd
\* Rifle" gives bosque_rifle and 2nd), the row "Total" gives none, a row by
\* unit gives one record with bosque_all, all and the unit of the row, and a
\* line that is neither gives none.
C25_BosqueRows ==
  pc = "done" =>
    /\ \A k \in 1..Len(sections) : sections[k][1].table_type = "bosque"
    /\ [i \in 1..Len(all_harvest) |-> row_summary(all_harvest[i])]
         = concat([k \in 1..Len(sections) |->
                     concat([i \in 1..Len(sections[k][2]) |->
                               bosque_row_expected(sections[k][2][i])])])

\* a section with a row by season, the row of the totals and a row by unit
C25_Witness ==
  /\ pc = "done"
  /\ Len(sections) = 1
  /\ sections[1][2] = <<LineBosque, LineBosqueTotal, LineBosqueUnit>>
  /\ Len(all_harvest) = 2
  /\ all_harvest[1].section_method = "bosque_rifle" /\ all_harvest[1].section_season = "2nd"
  /\ all_harvest[1].gmu = 851
  /\ all_harvest[2].section_method = "bosque_all" /\ all_harvest[2].section_season = "all"
  /\ all_harvest[2].gmu = 85

(***************************************************************************)
(* Spaced ordinals in the lines of a section                               *)
(***************************************************************************)

\* the lines of the text so far, with their ordinals put together
normalised_lines == {normalize_spaced_ordinals(lines[j]) : j \in 1..Len(lines)}

\* C26: the line stored in the buffer of a section is the normalised form of
\* the line of the text, so the row "1 s t Rifle 10 5 0 15 40 38 120" of a
\* bosque section is parsed as the row of "1st Rifle".
C26_BufferHoldsNormalised ==
  /\ \A i \in 1..Len(current_lines) : current_lines[i] \in normalised_lines
  /\ \A k \in 1..Len(sections) :
       \A i \in 1..Len(sections[k][2]) : sections[k][2][i] \in normalised_lines
  /\ (pc = "done" /\ Len(sections) = 1 /\ lines = <<TitleBosque, LineBosqueSpaced>>)
       => Len(all_harvest) = 1 /\ all_harvest[1].section_season = "1st"

\* the row with the spaced ordinal is buffered as it came and gives no
\* record
C26_SpacedRowNotParsed ==
  /\ pc = "done"
  /\ lines = <<TitleBosque, LineBosqueSpaced>>
  /\ sections[1][2] = <<LineBosqueSpaced>>
  /\ all_harvest = <<>>

\* C26, the part that holds: a title with a spaced ordinal is recognised and
\* classified by its normalised form
C26_SpacedTitleClassified ==
  (Len(lines) = 1 /\ lines[1] = TitleSpaced /\ pc = "split") =>
     /\ current_meta # None
     /\ current_meta[1].method = "rifle" /\ current_meta[1].season = "2nd"

(***************************************************************************)
(* The warning for a section without records                               *)
(***************************************************************************)

\* the sections parsed so far that have no record and at least one line
\* that is neither blank nor a footer row of the section's shape
empty_with_unparsed ==
  {k \in 1..Len(sections_detail) :
     /\ sections_detail[k].records = 0
     /\ \E i \in 1..Len(sections[k][2]) :
          /\ strip(sections[k][2][i]) # <<>>
          /\ ~footer_line(sections[k][1].table_type, sections[k][2][i])}

\* C27: a section whose only lines are footer rows has no record and no
\* warning: the warnings are those of the sections without records that
\* have at least one unparsed line, one each.
C27_WarningOnlyForUnparsed ==
  pc \in {"parse", "done"} =>
    /\ Len(warnings) = Cardinality(empty_with_unparsed)
    /\ \A k \in 1..Len(sections_detail) :
         (\A i \in 1..Len(sections[k][2]) :
            footer_line(sections[k][1].table_type, sections[k][2][i]))
         => sections_detail[k].records = 0

\* without --debug, a rec_days section of a footer row and nothing else is
\* warned about as a section with content and no record
C27_FooterOnlyWarned ==
  /\ pc = "done" /\ ~DEBUG_DUMP
  /\ Len(sections) = 1 /\ sections[1][2] = <<LineTotal>>
  /\ sections_detail[1].records = 0
  /\ Len(warnings) = 1 /\ warnings[1].type = "harvest_rec_days"

\* C27, the part that holds: a section without records whose lines include
\* an unparsed one is warned about, and a section with records is not.
C27_WarningForUnparsed ==
  pc \in {"parse", "done"} =>
    /\ \A k \in empty_with_unparsed :
         \E j \in 1..Len(warnings) : warnings[j].title = take(sections[k][1].raw_title, 60)
    /\ Len(warnings) <= Cardinality({k \in 1..Len(sections_detail) : sections_detail[k].records = 0})

(***************************************************************************)
(* The two field sets of a harvest record                                  *)
(***************************************************************************)

\* the six fields of the percent-success tables and the seven of the
\* recreation-days tables
success_fields(r) ==
  <<r.antlered_harvest, r.antlered_hunters, r.antlered_pct_success,
    r.antlerless_harvest, r.antlerless_hunters, r.antlerless_pct_success>>

rec_days_fields(r) ==
  <<r.bulls, r.cows, r.calves, r.total_harvest, r.total_hunters, r.pct_success,
    r.total_rec_days>>

\* C28: every record of a rec_days or bosque section has the six
\* percent-success fields null; every record of a percent_success section
\* has the six not null and the seven rec-days fields zero; no record has
\* values of both sets.
C28_FieldSetsApart ==
  \A i \in 1..Len(all_harvest) :
    /\ all_harvest[i].table_type \in {"harvest_rec_days", "bosque", "percent_success"}
    /\ all_harvest[i].table_type \in {"harvest_rec_days", "bosque"} =>
         \A k \in 1..6 : success_fields(all_harvest[i])[k] = None
    /\ all_harvest[i].table_type = "percent_success" =>
         /\ \A k \in 1..6 : success_fields(all_harvest[i])[k] # None
         /\ \A k \in 1..7 : rec_days_fields(all_harvest[i])[k] = 0
    /\ \/ \A k \in 1..6 : success_fields(all_harvest[i])[k] = None
       \/ \A k \in 1..7 : rec_days_fields(all_harvest[i])[k] = 0

\* a document with a record of a rec_days section and a record of a
\* percent_success section
C28_Witness ==
  /\ pc = "done"
  /\ Len(all_harvest) = 2
  /\ \E i \in 1..Len(all_harvest) :
       /\ all_harvest[i].table_type = "harvest_rec_days"
       /\ all_harvest[i].total_rec_days = 900
  /\ \E i \in 1..Len(all_harvest) :
       /\ all_harvest[i].table_type = "percent_success"
       /\ all_harvest[i].antlered_harvest = Some(40)

\* a document with a record of a bosque section
C28_BosqueRecord ==
  /\ pc = "done"
  /\ Len(all_harvest) = 1
  /\ all_harvest[1].table_type = "bosque" /\ all_harvest[1].total_rec_days = 120

(***************************************************************************)
(* The year of a document                                                  *)
(***************************************************************************)

\* the dropped pages whose text shows the year
revealing_pages(pages) ==
  {k \in 1..Len(pages) :
     pages[k] # None /\ noise_page(pages[k][1]) /\ year_search(pages[k][1]) # None}

\* the lines of the stream that begin with a year and the subject noun
year_lines(stream) == {i \in 1..Len(stream) : year_at(stream[i], 1, FALSE)}

\* the least number of a set of numbers that is not empty
least(ns) == CHOOSE n \in ns : \A other \in ns : n <= other

\* C29: the year of a document is the year of the first table of contents
\* or methodology page that shows one, whatever the pages after it show;
\* only when no dropped page shows a year is it looked for in the lines of
\* the stream, and then it is the year of the first line that has one.
C29_YearOfFirstSource ==
  pc = "split" =>
    IF revealing_pages(pages_at_hand) # {}
    THEN Some(year) = year_search(pages_at_hand[least(revealing_pages(pages_at_hand))][1])
    ELSE /\ year_lines(surviving_lines(pages_at_hand)) # {}
         /\ year = int(take(surviving_lines(pages_at_hand)
                              [least(year_lines(surviving_lines(pages_at_hand)))], 4))

\* a table of contents of 2019 and then a methodology page of 2020: 2019
C29_Witness ==
  /\ pc = "split"
  /\ pages_at_hand = <<Some(PageContents), Some(PageMethodology)>>
  /\ year = 2019

\* a table of contents without a year, then the methodology page of 2020
C29_SecondDroppedPage ==
  /\ pc = "split"
  /\ pages_at_hand = <<Some(PageDots), Some(PageMethodology)>>
  /\ year = 2020

\* no dropped page: a title of 2020 and then a title of 2019 in the stream
C29_FirstTitleLine ==
  /\ pc = "split"
  /\ pages_at_hand = <<Some(PageSuccess2020), Some(PageRifle)>>
  /\ year = 2020

(***************************************************************************)
(* The DAU of the harvest summaries and of the population records          *)
(***************************************************************************)

\* the records the parser has given for its line, once it has run
records_of(parser) ==
  IF \E k \in 1..Len(ret) : ret[k].parser = parser
  THEN Some(ret[CHOOSE k \in 1..Len(ret) : ret[k].parser = parser].records)
  ELSE None

\* the digits the DAU is written with in the line of the population table
population_numeral == tokens(arg.population)[1]

\* the digits the DAU is written with in the DAU line of the harvest report
harvest_numeral == SubSeq(tokens(arg.harvest)[1], 3, Len(tokens(arg.harvest)[1]))

\* C30: for the same DAU number the population parser and the parser of the
\* DAU lines of the harvest report give the same dau, "E-" and the number
\* without leading zero, whether the line writes the number with a leading
\* zero or not; for different numbers they give different dau.
C30_SameDAUJoins ==
  (call = "join" /\ Len(ret) = 2) =>
    /\ Len(records_of("harvest")[1]) = 1
    /\ (Len(population_numeral) <= 2 /\ ~ret[1].raised /\ ~ret[2].raised)
         => Len(records_of("population")[1]) = 1
    /\ Len(records_of("population")[1]) = 1 =>
         /\ canonical(records_of("population")[1][1].dau)
         /\ records_of("population")[1][1].dau_number = int(population_numeral)
         /\ (records_of("population")[1][1].dau = records_of("harvest")[1][1].dau)
              <=> (int(population_numeral) = int(harvest_numeral))

\* "07" in the population table and "E-7" in the harvest report: E-7 twice
C30_Witness ==
  /\ call = "join" /\ Len(ret) = 2
  /\ population_numeral = <<"0","7">> /\ harvest_numeral = <<"7">>
  /\ records_of("population")[1][1].dau = <<"E","-","7">>
  /\ records_of("harvest")[1][1].dau = <<"E","-","7">>
  /\ records_of("population")[1][1].population_estimate = 21300

=============================================================================
